---- MODULE Spec2Model ----
(***************************************************************************)
(* A state-machine model of the UNM-Server source-ranking service, its     *)
(* two-tier cache service, the song cache facade and the match handler.    *)
(*                                                                         *)
(* Numbers that are floats in the program (avgResponseTime, successRate,   *)
(* the ranking score) are exact fractions <<num, den>> here.               *)
(***************************************************************************)
EXTENDS Integers, Sequences, FiniteSets, TLC

(***************************************************************************)
(* Bounds of the model.                                                    *)
(***************************************************************************)
\* how far the clock (in seconds) advances
MaxTime == 2
\* how many recordSourceResult requests are accepted in one run
MaxCalls == 3
\* how many cache calls are started in one run
MaxOps == 3
\* the capacity of the memory cache (max: 1000 in the program)
MemoryMax == 2
\* how many hours the service runs
MaxHours == 2
\* how many times the clean-up timer of the API-key cache fires
MaxCleanups == 7

(***************************************************************************)
(* Program constants.                                                      *)
(***************************************************************************)
\* qualityScore given to a source that is not in DEFAULT_QUALITY_SCORES
NEUTRAL_QUALITY == 70

\* DEFAULT_QUALITY_SCORES
KnownSources ==
  {"qq", "kugou", "kuwo", "migu", "joox", "youtube", "ytdlp", "bilibili", "pyncmd"}

DEFAULT_QUALITY_SCORES ==
  [s \in KnownSources |->
    CASE s = "qq" -> 85
      [] s = "kugou" -> 80
      [] s = "kuwo" -> 75
      [] s = "migu" -> 90
      [] s = "joox" -> 70
      [] s = "youtube" -> 88
      [] s = "ytdlp" -> 95
      [] s = "bilibili" -> 65
      [] s = "pyncmd" -> 60]

\* config.DEFAULT_SOURCES
DEFAULT_SOURCES == <<"kugou", "kuwo", "migu", "ytdlp", "bilibili">>

(***************************************************************************)
(* Inputs the model draws from.                                            *)
(***************************************************************************)
\* sources that receive recordSourceResult / resetSourceStats calls;
\* "fresh" and "other" are not in DEFAULT_QUALITY_SCORES
RecordSources == {"kugou", "fresh"}
\* the <<success, responseTime>> pairs of the recorded results
Outcomes == {<<TRUE, 100>>, <<TRUE, 800>>, <<FALSE, 0>>}
Callers == {1, 2}
\* null of lastSuccess / lastFailure; Date.now() is always >= 1
Null == 0

VARIABLES
  now,             \* the clock, in seconds
  sourceStats,     \* SourceRankingService.sourceStats: a Map source -> stats
  hasLocalStorage, \* typeof localStorage !== 'undefined'
  storage,         \* localStorage item 'sourceStats': <<>> (none) or <<snapshot>>
  req,             \* the /api/sources/record requests in flight, per caller
  made,            \* history: recordSourceResult calls made on each source since
                   \* its stats were last initialised, loaded or reset
  nRecorded,       \* history: recordSourceResult requests accepted in this run
  okTimes,         \* history, per source: how many successful calls were recorded
                   \* since its stats were zeroed, and the sum of their
                   \* response times; n = -1 when the stats were loaded
  rankOut,         \* the last ranking call: its input and its result
  memoryCache,     \* CacheService.memoryCache: the LRU list, least recently used first
  redisClient,     \* whether CacheService.redisClient was created
  redisAvailable,  \* CacheService.redisAvailable
  redis,           \* the shared tier: a map key -> [raw, expireAt]
  cacheStats,      \* CacheService.stats: hits and misses
  task,            \* the asynchronous calls in flight, and what each last returned
  nOps,            \* history: calls started in this run
  hist,            \* history, per key: when, with what TTL and value and as which
                   \* call of the run it was last set, whether no other call was
                   \* in flight then, and whether no get has returned it since
  removed,         \* history, per key: the removals completed since it was last set
  gone,            \* history, per key: the removals that last left it in neither tier
  match,           \* the request to the match route being served
  conn,            \* initRedis: reconnectAttempts, the timers and connect calls
                   \* pending, and the history of the attempts
  apiKeyCache,     \* the module's apiKeyCache: key -> [valid, expires]
  authOut,         \* the last middleware call: its request and its outcome
  config           \* the config object the middlewares are created with

regVars == <<sourceStats, hasLocalStorage, storage, req, made, nRecorded, okTimes>>
rankVars == <<rankOut>>
cacheVars == <<memoryCache, redisClient, redisAvailable, redis, cacheStats, task, nOps,
               hist, removed, gone>>
matchVars == <<match>>
connVars == <<conn>>
authVars == <<apiKeyCache, authOut, config>>
edgeVars == <<connVars, authVars>>
vars == <<now, regVars, rankVars, cacheVars, matchVars, edgeVars>>

(***************************************************************************)
(* Fractions.                                                              *)
(***************************************************************************)
RECURSIVE Gcd(_, _)
Gcd(a, b) == IF b = 0 THEN a ELSE Gcd(b, a % b)

Frac(n, d) == LET g == Gcd(n, d) IN IF g = 0 THEN <<0, 1>> ELSE <<n \div g, d \div g>>
FracLt(x, y) == x[1] * y[2] < y[1] * x[2]
FracLe(x, y) == x[1] * y[2] <= y[1] * x[2]
Zero == <<0, 1>>

(***************************************************************************)
(* SourceRankingService: the statistics registry.                          *)
(***************************************************************************)
\* the zeroed stats object of initSourceStats / recordSourceResult / resetSourceStats
ZeroStats(q) ==
  [availableCount |-> 0, totalRequests |-> 0, avgResponseTime |-> Zero,
   lastSuccess |-> Null, lastFailure |-> Null, successRate |-> Zero,
   qualityScore |-> q]

\* Map.set
MapSet(m, k, v) == [x \in (DOMAIN m) \cup {k} |-> IF x = k THEN v ELSE m[x]]

\* Object.entries(parsed).forEach(set): the entries of `over` overwrite those of m
Overlay(m, over) ==
  [x \in (DOMAIN m) \cup (DOMAIN over) |-> IF x \in DOMAIN over THEN over[x] ELSE m[x]]

\* loadStatsFromStorage
LoadStatsFromStorage(m, hasLS, st) ==
  IF hasLS /\ st # <<>> THEN Overlay(m, st[1]) ELSE m

\* initSourceStats: every known source is set to its seed, then the saved
\* snapshot is loaded over the map
InitSourceStats(m, hasLS, st) ==
  LoadStatsFromStorage(
    Overlay(m, [s \in KnownSources |-> ZeroStats(DEFAULT_QUALITY_SCORES[s])]),
    hasLS, st)

\* saveStatsToStorage
SaveStatsToStorage(m, hasLS, st) == IF hasLS THEN <<m>> ELSE st

\* the stats object recordSourceResult starts from
StatsOrNew(m, source) ==
  IF source \in DOMAIN m THEN m[source] ELSE ZeroStats(NEUTRAL_QUALITY)

\* a variant that counts only the successful requests
UpdatedStatsOnSuccess(stats, success, responseTime, t) ==
  IF success
  THEN [stats EXCEPT
          !.totalRequests = @ + 1,
          !.availableCount = @ + 1,
          !.lastSuccess = t,
          !.avgResponseTime = Frac(@[1] * stats.availableCount + responseTime * @[2],
                                   @[2] * (stats.availableCount + 1)),
          !.successRate = Frac(stats.availableCount + 1, stats.totalRequests + 1)]
  ELSE [stats EXCEPT !.lastFailure = t]

\* a variant whose running mean is taken over all requests
UpdatedStatsMeanOfAll(stats, success, responseTime, t) ==
  LET total == stats.totalRequests + 1
      avail == IF success THEN stats.availableCount + 1 ELSE stats.availableCount
      avg == IF success
             THEN Frac(stats.avgResponseTime[1] * (total - 1)
                         + responseTime * stats.avgResponseTime[2],
                       stats.avgResponseTime[2] * total)
             ELSE stats.avgResponseTime
  IN [stats EXCEPT
        !.totalRequests = total,
        !.availableCount = avail,
        !.lastSuccess = IF success THEN t ELSE @,
        !.avgResponseTime = avg,
        !.lastFailure = IF success THEN @ ELSE t,
        !.successRate = Frac(avail, total)]

\* the statistics update of recordSourceResult, on the stats object `stats`
UpdatedStats(stats, success, responseTime, t) ==
  LET total == stats.totalRequests + 1
      avail == IF success THEN stats.availableCount + 1 ELSE stats.availableCount
      avg == IF success
             THEN Frac(stats.avgResponseTime[1] * (avail - 1)
                         + responseTime * stats.avgResponseTime[2],
                       stats.avgResponseTime[2] * avail)
             ELSE stats.avgResponseTime
  IN [stats EXCEPT
        !.totalRequests = total,
        !.availableCount = avail,
        !.lastSuccess = IF success THEN t ELSE @,
        !.avgResponseTime = avg,
        !.lastFailure = IF success THEN @ ELSE t,
        !.successRate = Frac(avail, total)]

(***************************************************************************)
(* Array.prototype.sort as the engine runs it on a short array (fewer than *)
(* 64 elements): the leading run is found and, when strictly descending,   *)
(* reversed; the rest is inserted by binary insertion.  cmp is the         *)
(* comparator as a function on pairs, giving a negative, zero or positive  *)
(* number.                                                                 *)
(***************************************************************************)
RECURSIVE ExtendRun(_, _, _, _)
ExtendRun(seq, cmp, i, desc) ==
  IF i > Len(seq) THEN i - 1
  ELSE LET order == cmp[<<seq[i], seq[i - 1]>>]
       IN IF (desc /\ order >= 0) \/ (~desc /\ order < 0)
          THEN i - 1
          ELSE ExtendRun(seq, cmp, i + 1, desc)

ReverseRange(seq, n) ==
  [i \in 1..Len(seq) |-> IF i <= n THEN seq[n + 1 - i] ELSE seq[i]]

\* CountAndMakeRun: <<the array after the run is made ascending, the run's length>>
CountAndMakeRun(seq, cmp) ==
  IF Len(seq) < 2 THEN <<seq, Len(seq)>>
  ELSE LET desc == cmp[<<seq[2], seq[1]>>] < 0
           n == ExtendRun(seq, cmp, 3, desc)
       IN <<IF desc THEN ReverseRange(seq, n) ELSE seq, n>>

RECURSIVE BinarySearch(_, _, _, _, _)
BinarySearch(seq, cmp, pivot, left, right) ==
  IF left >= right THEN left
  ELSE LET mid == left + ((right - left) \div 2)
       IN IF cmp[<<pivot, seq[mid]>>] < 0
          THEN BinarySearch(seq, cmp, pivot, left, mid)
          ELSE BinarySearch(seq, cmp, pivot, mid + 1, right)

\* the element at position `from` moved down to position `to`
MoveTo(seq, from, to) ==
  [i \in 1..Len(seq) |->
    IF i < to \/ i > from THEN seq[i]
    ELSE IF i = to THEN seq[from] ELSE seq[i - 1]]

RECURSIVE BinaryInsertionSort(_, _, _)
BinaryInsertionSort(seq, cmp, start) ==
  IF start > Len(seq) THEN seq
  ELSE BinaryInsertionSort(
         MoveTo(seq, start, BinarySearch(seq, cmp, seq[start], 1, start)),
         cmp, start + 1)

ArraySort(seq, cmp) ==
  LET run == CountAndMakeRun(seq, cmp)
  IN BinaryInsertionSort(run[1], cmp, run[2] + 1)

\* Array.prototype.filter
RECURSIVE Filter(_, _)
Filter(seq, keep) ==
  IF seq = <<>> THEN <<>>
  ELSE IF seq[1] \in keep THEN <<seq[1]>> \o Filter(Tail(seq), keep)
       ELSE Filter(Tail(seq), keep)

\* Array.prototype.indexOf, 0-based, -1 when absent
RECURSIVE IndexFrom(_, _, _)
IndexFrom(seq, x, i) ==
  IF i > Len(seq) THEN -1 ELSE IF seq[i] = x THEN i - 1 ELSE IndexFrom(seq, x, i + 1)

IndexOf(seq, x) == IndexFrom(seq, x, 1)

Range(seq) == {seq[i] : i \in 1..Len(seq)}

(***************************************************************************)
(* SourceRankingService: ranking.                                          *)
(***************************************************************************)
\* successRate * 0.4 + qualityScore / 100 * 0.4
\*   + max(0, (1000 - avgResponseTime) / 1000) * 0.2, as a fraction
Score(stats) ==
  LET a == stats.successRate[1]
      t == stats.successRate[2]
      n == stats.avgResponseTime[1]
      d == stats.avgResponseTime[2]
      speed == IF 1000 * d - n > 0 THEN 1000 * d - n ELSE 0
  IN Frac(2000 * a * d + 20 * stats.qualityScore * t * d + speed * t, 5000 * t * d)

\* the sign of x - y for fractions
FracCmp(x, y) == IF FracLt(x, y) THEN -1 ELSE IF FracLt(y, x) THEN 1 ELSE 0

\* a variant of the comparator that sorts ascending by score
RankCompareAscending(m, a, b) ==
  IF a \in DOMAIN m /\ b \in DOMAIN m THEN FracCmp(Score(m[a]), Score(m[b])) ELSE 0

\* the comparator rankSources sorts by
RankCompare(m, a, b) ==
  IF a \notin DOMAIN m \/ b \notin DOMAIN m
  THEN LET defaultOrderA == IndexOf(DEFAULT_SOURCES, a)
           defaultOrderB == IndexOf(DEFAULT_SOURCES, b)
       IN IF defaultOrderA # -1 /\ defaultOrderB # -1 THEN defaultOrderA - defaultOrderB
          ELSE IF defaultOrderA # -1 THEN -1
          ELSE IF defaultOrderB # -1 THEN 1
          ELSE 0
  ELSE FracCmp(Score(m[b]), Score(m[a]))

\* a variant of the filter that excludes from five requests on
RankKeepsBelowFive(m, source) ==
  IF source \in DOMAIN m
  THEN ~(m[source].totalRequests >= 5 /\ FracLt(m[source].successRate, <<1, 5>>))
  ELSE TRUE

\* the predicate rankSources filters by
RankKeeps(m, source) ==
  IF source \in DOMAIN m
  THEN ~(m[source].totalRequests > 5 /\ FracLt(m[source].successRate, <<1, 5>>))
  ELSE TRUE

\* a variant that ranks an empty input as it is
RankInputAsGiven(sources) == sources

\* the list rankSources works on: config.DEFAULT_SOURCES for an empty input
RankInput(sources) == IF Len(sources) = 0 THEN DEFAULT_SOURCES ELSE sources

RankSources(m, sources) ==
  LET input == RankInput(sources)
      kept == Filter(input, {s \in Range(input) : RankKeeps(m, s)})
  IN ArraySort(kept, [p \in Range(kept) \X Range(kept) |-> RankCompare(m, p[1], p[2])])

\* getBestSource; "null" is the null it returns for an empty ranking
BestOf(ranked) == IF Len(ranked) > 0 THEN ranked[1] ELSE "null"

GetBestSource(m, sources) == BestOf(RankSources(m, sources))

\* the score the 4g branch sorts by: qualityScore * 0.8 for a source with
\* qualityScore > 90 and avgResponseTime > 500, else stats?.qualityScore ?? 70
NetworkScore(m, source) ==
  IF source \in DOMAIN m /\ m[source].qualityScore > 90
     /\ FracLt(<<500, 1>>, m[source].avgResponseTime)
  THEN Frac(m[source].qualityScore * 4, 5)
  ELSE IF source \in DOMAIN m THEN <<m[source].qualityScore, 1>>
  ELSE <<NEUTRAL_QUALITY, 1>>

\* ranked.map(source => ({ source, score }))
NetworkItems(m, ranked) ==
  [i \in 1..Len(ranked) |-> [source |-> ranked[i], score |-> NetworkScore(m, ranked[i])]]

\* a variant of the 3g / 2g predicate with the 4g thresholds
NetworkKeepsAbove90(m, source) ==
  ~(source \in DOMAIN m /\ m[source].qualityScore > 90
    /\ FracLt(<<500, 1>>, m[source].avgResponseTime))

\* the predicate the 3g / 2g branch filters by
NetworkKeeps(m, source) ==
  ~(source \in DOMAIN m /\ m[source].qualityScore > 85
    /\ FracLt(<<300, 1>>, m[source].avgResponseTime))

\* a variant of the 4g comparator that sorts ascending
NetworkCompareAscending(a, b) == FracCmp(a.score, b.score)

\* the comparator of the 4g branch: b.score - a.score
NetworkCompare(a, b) == FracCmp(b.score, a.score)

AdjustSourcesForNetwork(m, sources, networkType) ==
  LET ranked == RankSources(m, sources)
  IN CASE networkType = "wifi" -> ranked
       [] networkType = "4g" ->
            LET items == NetworkItems(m, ranked)
                sorted == ArraySort(items,
                            [p \in Range(items) \X Range(items) |->
                               NetworkCompare(p[1], p[2])])
            IN [i \in 1..Len(sorted) |-> sorted[i].source]
       [] networkType \in {"3g", "2g"} ->
            Filter(ranked, {s \in Range(ranked) : NetworkKeeps(m, s)})
       [] OTHER -> ranked

(***************************************************************************)
(* The registry's operations.                                              *)
(***************************************************************************)
RECURSIVE RecordN(_, _, _, _)
RecordN(stats, n, success, responseTime) ==
  IF n = 0 THEN stats
  ELSE RecordN(UpdatedStats(stats, success, responseTime, 1), n - 1, success, responseTime)

EmptyMap == [x \in {} |-> 0]

Seeds == [s \in KnownSources |-> ZeroStats(DEFAULT_QUALITY_SCORES[s])]

\* what an earlier run of the service may have left in localStorage: nothing,
\* or its table after six failures of kuwo and of bilibili, and five failures
\* and one success of the unseeded source "other"
SavedSnapshots ==
  {<<>>,
   <<Overlay(Seeds,
       [s \in {"kuwo", "bilibili", "other"} |->
         IF s = "other"
         THEN RecordN(RecordN(ZeroStats(NEUTRAL_QUALITY), 5, FALSE, 0), 1, TRUE, 100)
         ELSE RecordN(ZeroStats(DEFAULT_QUALITY_SCORES[s]), 6, FALSE, 0)])>>}

AllSources == KnownSources \cup RecordSources \cup {"other"}

Idle == [pc |-> "idle"]

\* the calls a table of statistics accounts for, source by source
Accounted(m) ==
  [s \in AllSources |-> IF s \in DOMAIN m THEN m[s].totalRequests ELSE 0]

\* history: no successful call yet / stats that did not start from zero
NoTimes == [n |-> 0, sum |-> 0]
Untracked == [n |-> -1, sum |-> 0]

IsZeroed(m, s) ==
  s \in DOMAIN m => m[s].totalRequests = 0 /\ m[s].avgResponseTime = Zero

TimesFrom(m) == [s \in AllSources |-> IF IsZeroed(m, s) THEN NoTimes ELSE Untracked]

\* history: a call on source was recorded
Timed(ok, source, success, responseTime) ==
  [ok EXCEPT ![source] =
     IF success /\ @.n >= 0 THEN [n |-> @.n + 1, sum |-> @.sum + responseTime]
     ELSE @]

RegInit ==
  /\ hasLocalStorage \in BOOLEAN
  /\ storage \in (IF hasLocalStorage THEN SavedSnapshots ELSE {<<>>})
  /\ sourceStats = InitSourceStats(EmptyMap, hasLocalStorage, storage)
  /\ req = [c \in Callers |-> Idle]
  /\ made = Accounted(sourceStats)
  /\ nRecorded = 0
  /\ okTimes = TimesFrom(sourceStats)

\* a POST /api/sources/record request arrives; its handler has not run yet
RecordRequest(c, source, success, responseTime) ==
  /\ req[c].pc = "idle"
  /\ nRecorded < MaxCalls
  /\ req' = [req EXCEPT ![c] =
               [pc |-> "pending", source |-> source, success |-> success,
                responseTime |-> responseTime,
                before |-> StatsOrNew(sourceStats, source), reset |-> FALSE]]
  /\ nRecorded' = nRecorded + 1
  /\ UNCHANGED <<now, sourceStats, hasLocalStorage, storage, made, okTimes, rankVars, edgeVars,
                 cacheVars, matchVars>>

\* a variant that updates the stats object the request saw when it arrived
StaleRead(m, r) == r.before

\* the stats object the handler of request r updates

ReadStats(m, r) == StatsOrNew(m, r.source)

\* recordSourceResult, run by the handler of caller c in one piece
RecordSourceResult(c) ==
  /\ req[c].pc = "pending"
  /\ LET r == req[c]
         stats == UpdatedStats(ReadStats(sourceStats, r), r.success, r.responseTime, now)
     IN /\ sourceStats' = MapSet(sourceStats, r.source, stats)
        /\ storage' = SaveStatsToStorage(sourceStats', hasLocalStorage, storage)
        /\ made' = [made EXCEPT ![r.source] = @ + 1]
        /\ okTimes' = Timed(okTimes, r.source, r.success, r.responseTime)
  /\ req' = [req EXCEPT ![c].pc = "done"]
  /\ UNCHANGED <<now, hasLocalStorage, nRecorded, rankVars, edgeVars, cacheVars, matchVars>>

\* the reply to caller c is sent
RecordReply(c) ==
  /\ req[c].pc = "done"
  /\ req' = [req EXCEPT ![c] = Idle]
  /\ UNCHANGED <<now, sourceStats, hasLocalStorage, storage, made,
                 nRecorded, okTimes, rankVars, edgeVars, cacheVars, matchVars>>

\* this.DEFAULT_QUALITY_SCORES[source] || 70
SeedQuality(source) ==
  IF source \in KnownSources THEN DEFAULT_QUALITY_SCORES[source] ELSE NEUTRAL_QUALITY

\* the map after resetSourceStats(source)
ResetOne(m, source) ==
  IF source \in DOMAIN m THEN MapSet(m, source, ZeroStats(SeedQuality(source))) ELSE m

\* the map after resetSourceStats()
ResetAll(m, hasLS, st) == InitSourceStats(m, hasLS, st)

MarkReset(covered) ==
  [c \in Callers |->
    IF req[c].pc # "idle" /\ req[c].source \in covered
    THEN [req[c] EXCEPT !.reset = TRUE] ELSE req[c]]

\* resetSourceStats(source)
ResetSourceStats(source) ==
  /\ sourceStats' = ResetOne(sourceStats, source)
  /\ storage' = SaveStatsToStorage(sourceStats', hasLocalStorage, storage)
  /\ made' = [made EXCEPT ![source] = 0]
  /\ okTimes' = [okTimes EXCEPT ![source] = NoTimes]
  /\ req' = MarkReset({source})
  /\ UNCHANGED <<now, hasLocalStorage, nRecorded, rankVars, edgeVars, cacheVars, matchVars>>

\* resetSourceStats() with no source
ResetAllSourceStats ==
  /\ sourceStats' = ResetAll(sourceStats, hasLocalStorage, storage)
  /\ storage' = SaveStatsToStorage(sourceStats', hasLocalStorage, storage)
  /\ made' = Accounted(sourceStats')
  /\ okTimes' = [s \in AllSources |->
                   IF s \in DOMAIN sourceStats /\ sourceStats'[s] # sourceStats[s]
                   THEN TimesFrom(sourceStats')[s] ELSE okTimes[s]]
  /\ req' = MarkReset(AllSources)
  /\ UNCHANGED <<now, hasLocalStorage, nRecorded, rankVars, edgeVars, cacheVars, matchVars>>

\* the process is restarted: the requests in flight are gone and the module's
\* singleton is constructed again, next to what localStorage holds
Restart ==
  /\ sourceStats' = InitSourceStats(EmptyMap, hasLocalStorage, storage)
  /\ req' = [c \in Callers |-> Idle]
  /\ made' = Accounted(sourceStats')
  /\ okTimes' = TimesFrom(sourceStats')
  /\ UNCHANGED <<now, hasLocalStorage, storage, nRecorded, rankVars, edgeVars,
                 cacheVars, matchVars>>

Tick ==
  /\ now < 1 + MaxTime
  /\ now' = now + 1
  /\ UNCHANGED <<regVars, rankVars, edgeVars, cacheVars, matchVars>>

(***************************************************************************)
(* Strings the program takes apart (cache keys, prefixes) are sequences of *)
(* one-character strings.                                                  *)
(***************************************************************************)
StartsWith(str, prefix) ==
  Len(prefix) <= Len(str) /\ SubSeq(str, 1, Len(prefix)) = prefix

\* SongCacheService.SONG_PREFIX, SOURCE_PREFIX
SONG_PREFIX == <<"s", "o", "n", "g", ":">>
SOURCE_PREFIX == <<"s", "o", "u", "r", "c", "e", ":">>

\* the characters of a source name
Chars(source) ==
  CASE source = "kugou" -> <<"k", "u", "g", "o", "u">>
    [] source = "kuwo" -> <<"k", "u", "w", "o">>
    [] OTHER -> <<>>

\* getSongKey: `song:${id}:${source}` when a source is given, else `song:${id}`
GetSongKey(id, source) ==
  IF source # "" THEN SONG_PREFIX \o id \o <<":">> \o Chars(source)
  ELSE SONG_PREFIX \o id

\* getSourceKey
GetSourceKey(id) == SOURCE_PREFIX \o id

\* the prefix clearSourceCache deletes by: `${SONG_PREFIX}:${source}`
SourcePrefix(source) == SONG_PREFIX \o <<":">> \o Chars(source)

(***************************************************************************)
(* The memory cache: lru-cache with max, ttl, allowStale: false and        *)
(* updateAgeOnGet: true.  Times and TTLs are in seconds.                   *)
(***************************************************************************)
\* the ttl option of the constructor, 300 * 1000 ms
DEFAULT_TTL == 300

\* CacheService.TTL
PRIORITY_TTL(priority) ==
  CASE priority = "low" -> 15 * 60
    [] priority = "normal" -> 60 * 60
    [] priority = "high" -> 6 * 60 * 60

RECURSIVE LruIndex(_, _, _)
LruIndex(c, k, i) ==
  IF i > Len(c) THEN 0 ELSE IF c[i].key = k THEN i ELSE LruIndex(c, k, i + 1)

LruRemove(c, i) == SubSeq(c, 1, i - 1) \o SubSeq(c, i + 1, Len(c))

\* an entry is stale once its age exceeds its ttl
LruStale(e, t) == t - e.start > e.ttl

\* a variant of get with allowStale: true
LruGetAllowStale(c, k, t) ==
  LET i == LruIndex(c, k, 1)
  IN IF i = 0 THEN [found |-> FALSE, value |-> "", age |-> 0, ttl |-> 0, cache |-> c]
     ELSE [found |-> TRUE, value |-> c[i].value, age |-> t - c[i].start,
           ttl |-> c[i].ttl,
           cache |-> LruRemove(c, i) \o <<[c[i] EXCEPT !.start = t]>>]

\* memoryCache.get: a stale entry is dropped and not returned; a hit becomes the
\* most recently used entry and its age is reset
LruGet(c, k, t) ==
  LET i == LruIndex(c, k, 1)
  IN IF i = 0 THEN [found |-> FALSE, value |-> "", age |-> 0, ttl |-> 0, cache |-> c]
     ELSE IF LruStale(c[i], t)
     THEN [found |-> FALSE, value |-> "", age |-> 0, ttl |-> 0, cache |-> LruRemove(c, i)]
     ELSE [found |-> TRUE, value |-> c[i].value, age |-> t - c[i].start,
           ttl |-> c[i].ttl,
           cache |-> LruRemove(c, i) \o <<[c[i] EXCEPT !.start = t]>>]

\* a variant of set that stores nothing
LruSetNothing(c, k, v, ttl, t) == c

\* memoryCache.set: at capacity the least recently used entry is evicted
LruSet(c, k, v, ttl, t) ==
  LET i == LruIndex(c, k, 1)
      e == [key |-> k, value |-> v, start |-> t, ttl |-> ttl]
  IN IF i # 0 THEN LruRemove(c, i) \o <<e>>
     ELSE IF Len(c) >= MemoryMax THEN Tail(c) \o <<e>>
     ELSE c \o <<e>>

\* a variant of delete that removes nothing
LruKeep(c, k) == c

\* memoryCache.delete
LruDelete(c, k) ==
  LET i == LruIndex(c, k, 1) IN IF i = 0 THEN c ELSE LruRemove(c, i)

\* memoryCache.keys(): the keys of the entries that are not stale
LruKeys(c, t) == {c[i].key : i \in {j \in 1..Len(c) : ~LruStale(c[j], t)}}

\* a variant of the prefix loop that deletes nothing
LruKeepAll(c, ks) == c

RECURSIVE LruDeleteAll(_, _)
LruDeleteAll(c, ks) ==
  IF c = <<>> THEN <<>>
  ELSE IF c[1].key \in ks THEN LruDeleteAll(Tail(c), ks)
       ELSE <<c[1]>> \o LruDeleteAll(Tail(c), ks)

\* whether get would find k in the memory cache
LruLive(c, k, t) == k \in LruKeys(c, t)

(***************************************************************************)
(* The shared tier: the Redis commands the service issues.  A command acts *)
(* on the store when it is issued (one connection: commands are served in  *)
(* the order they are sent); its reply reaches the caller in a later step. *)
(***************************************************************************)
\* JSON.stringify / JSON.parse of a cached value
JsonStringify(v) == <<"json", v>>
\* a variant in which JSON.stringify never throws
StringifiesAll(v) == TRUE
\* JSON.stringify returns: it throws on a cyclic object
JsonStringifies(v) == v # "cyclic"
JsonParses(raw) == Len(raw) = 2 /\ raw[1] = "json"
JsonParse(raw) == raw[2]
\* what another writer or a broken write may leave under a key
Garbage == <<"{">>
\* the empty string, which `if (redisResult)` takes for no value
EmptyString == <<>>
Truthy(raw) == raw # EmptyString

\* an entry lives until its expiry time
RedisLive(r, k, t) == k \in DOMAIN r /\ t < r[k].expireAt

\* GET
RedisGet(r, k, t) ==
  IF RedisLive(r, k, t) THEN [kind |-> "str", raw |-> r[k].raw, keys |-> {}]
  ELSE [kind |-> "nil", raw |-> <<>>, keys |-> {}]

\* SET key value EX ttl
RedisSet(r, k, raw, ttl, t) ==
  [x \in (DOMAIN r) \cup {k} |->
    IF x = k THEN [raw |-> raw, expireAt |-> t + ttl] ELSE r[x]]

\* DEL key [key ...]
RedisDel(r, ks) == [x \in (DOMAIN r) \ ks |-> r[x]]

\* the glob patterns of KEYS: * matches any run of characters, ? any one
RECURSIVE GlobMatch(_, _)
GlobMatch(pattern, str) ==
  IF pattern = <<>> THEN str = <<>>
  ELSE IF Head(pattern) = "*"
  THEN GlobMatch(Tail(pattern), str)
       \/ (str # <<>> /\ GlobMatch(pattern, Tail(str)))
  ELSE /\ str # <<>>
       /\ Head(pattern) = "?" \/ Head(pattern) = Head(str)
       /\ GlobMatch(Tail(pattern), Tail(str))

\* a variant of KEYS that ignores its pattern
RedisKeysAll(r, pattern, t) ==
  [kind |-> "keys", raw |-> <<>>, keys |-> {k \in DOMAIN r : RedisLive(r, k, t)}]

\* KEYS pattern
RedisKeys(r, pattern, t) ==
  [kind |-> "keys", raw |-> <<>>,
   keys |-> {k \in DOMAIN r : RedisLive(r, k, t) /\ GlobMatch(pattern, k)}]

\* a rejected command
RedisError == [kind |-> "error", raw |-> <<>>, keys |-> {}]
\* the reply of SET and DEL
RedisDone == [kind |-> "done", raw |-> <<>>, keys |-> {}]
NoReply == [kind |-> "none", raw |-> <<>>, keys |-> {}]

(***************************************************************************)
(* CacheService.                                                           *)
(***************************************************************************)
\* the options of set: ttl NoTtl stands for no ttl given, priority "none" for
\* no priority given
NoTtl == -1
DefaultOptions == [ttl |-> 300, level |-> "memory", priority |-> "normal"]

\* the TTL set applies: opts = {...defaultOptions, ...options}, and the
\* priority's TTL when !options?.ttl, that is when options.ttl is missing or 0
ResolvedTtl(options) ==
  LET priority == IF options.priority = "none" THEN DefaultOptions.priority
                  ELSE options.priority
  IN IF options.ttl = NoTtl \/ options.ttl = 0 THEN PRIORITY_TTL(priority)
     ELSE options.ttl

\* a variant of the counting that counts nothing
CountNothing(st) == st

\* this.stats.hits++ / this.stats.misses++
CountHit(st) == [st EXCEPT !.hits = @ + 1]
CountMiss(st) == [st EXCEPT !.misses = @ + 1]

\* a variant of the promotion of a shared-tier hit that counts a miss
CountPromotedAsMiss(st) == CountMiss(st)

\* the counting on a shared-tier hit
CountPromoted(st) == CountHit(st)

\* getStats().hitRate: (hits / total * 100).toFixed(2) + '%', or '0%' with no
\* request; <<percent, hundredths>>, and <<0>> for '0%'
HitRate(st) ==
  LET total == st.hits + st.misses
      h == (st.hits * 20000 + total) \div (2 * total)
  IN IF total > 0 THEN <<h \div 100, h % 100>> ELSE <<0>>

(***************************************************************************)
(* Inputs of the cache calls.                                              *)
(***************************************************************************)
Ids == {<<"1">>}
CacheSources == {"kugou", "kuwo"}
\* song:1:kugou and source:1
CacheKeys == {GetSongKey(<<"1">>, "kugou"), GetSourceKey(<<"1">>)}
\* every key of the facade
SongKeys == {GetSongKey(id, s) : id \in Ids, s \in CacheSources \cup {""}}
              \cup {GetSourceKey(id) : id \in Ids}
\* matchSong: `match:${sanitizedId}:${enabledSources.join(',')}`
MATCH_PREFIX == <<"m", "a", "t", "c", "h", ":">>
MatchKey(id, source) == MATCH_PREFIX \o id \o <<":">> \o Chars(source)
MatchKeys == {MatchKey(id, s) : id \in Ids, s \in CacheSources}
\* a song id that id 1 is a leading substring of
LongerId == <<"1", "2">>
\* song:12, song:12:kugou and source:12
LongerKeys ==
  {GetSongKey(LongerId, ""), GetSongKey(LongerId, "kugou"), GetSourceKey(LongerId)}
Keys == CacheKeys \cup SongKeys \cup MatchKeys \cup LongerKeys
\* song:1 and song:?
Prefixes == {GetSongKey(<<"1">>, ""), SONG_PREFIX \o <<"?">>}
Values == {"a"}
\* the options of the set calls: a ttl of one second or none
SetOptions ==
  {[ttl |-> 1, level |-> "memory", priority |-> "none"],
   [ttl |-> 1, level |-> "redis", priority |-> "none"],
   [ttl |-> NoTtl, level |-> "redis", priority |-> "none"]}
\* a ttl of one second in the local tier, no priority
DefaultOptionsOneSecond == [ttl |-> 1, level |-> "memory", priority |-> "none"]
\* a value JSON.stringify throws on (a cyclic object)
Unserializable == "cyclic"
AllValues == Values \cup {Unserializable}
\* options that give a priority, with a ttl of two seconds, of 0, or none
PriorityOptions ==
  {[ttl |-> 2, level |-> "redis", priority |-> "high"],
   [ttl |-> 0, level |-> "memory", priority |-> "high"],
   [ttl |-> NoTtl, level |-> "memory", priority |-> "low"]}
Tasks == {1, 2}

(***************************************************************************)
(* Asynchronous calls.  A call runs up to its first await in one step; the *)
(* reply of the shared tier resumes it in a later step.                    *)
(***************************************************************************)
IdleTask ==
  [pc |-> "idle", call |-> "", op |-> "", key |-> <<>>, reply |-> NoReply,
   result |-> "", from |-> "", age |-> 0, ttl |-> 0,
   late0 |-> FALSE, fresh0 |-> FALSE, rem0 |-> {}, gone0 |-> {}, targets |-> {},
   newer |-> "none"]

Free(t) == task[t].pc \in {"idle", "done"}
\* a call starts in the first free slot
Slot(t) == Free(t) /\ \A u \in Tasks : u < t => ~Free(u)
CanStart(t) == nOps < MaxOps /\ Slot(t)

\* the keys a removal is to remove
Targets(call, arg) ==
  CASE call = "delete" -> {arg}
    [] call = "deleteByPrefix" -> {k \in Keys : StartsWith(k, arg)}
    [] call = "clearSourceCache" -> {GetSongKey(id, arg) : id \in Ids}
    [] OTHER -> {}

\* history: at time t the TTL of the last set of k has run out
Late(k, t) == hist[k].setAt > 0 /\ t > hist[k].setAt + hist[k].ttl

\* the result a caller of get / has sees
Result(op, v) ==
  IF op = "has" THEN (IF v # "null" THEN "true" ELSE "false") ELSE v

Returns(t, v, from, tk) ==
  [tk EXCEPT ![t] = [@ EXCEPT !.pc = "done", !.reply = NoReply,
                                !.result = Result(tk[t].op, v), !.from = from]]

\* history: a removal has completed; a key it was to remove is gone when
\* neither tier holds it and no read of it is in flight
Cleared(k, t, mem, r, tk) ==
  /\ LruIndex(mem, k, 1) = 0
  /\ ~RedisLive(r, k, now)
  /\ \A u \in Tasks \ {t} :
       ~(tk[u].pc \in {"get.redis", "get.del"} /\ tk[u].key = k)

\* history: a set or a removal of keys has completed; the reads of them that
\* are suspended on the shared tier have been overtaken by it
Newer(tk, t, keys, what) ==
  [u \in Tasks |->
     IF u # t /\ tk[u].pc = "get.redis" /\ tk[u].key \in keys
     THEN [tk[u] EXCEPT !.newer = what] ELSE tk[u]]

Completes(t, tk, mem, r) ==
  /\ task' = [Newer(tk, t, tk[t].targets, "removal") EXCEPT
                ![t] = [@ EXCEPT !.pc = "done", !.reply = NoReply,
                                 !.result = "void"]]
  /\ removed' = [k \in Keys |->
                   IF k \in tk[t].targets THEN removed[k] \cup {tk[t].call}
                   ELSE removed[k]]
  /\ gone' = [k \in Keys |->
                IF k \notin tk[t].targets THEN gone[k]
                ELSE IF Cleared(k, t, mem, r, tk) THEN gone[k] \cup {tk[t].call}
                ELSE gone[k] \ {tk[t].call}]

\* a call begins in slot t
Begins(t, call, op, key) ==
  [task EXCEPT ![t] = [IdleTask EXCEPT !.call = call, !.op = op, !.key = key]]

\* get, up to its await of redisClient.get or to its return
Get(t, call, op, key) ==
  LET g == LruGet(memoryCache, key, now)
      tk == [Begins(t, call, op, key) EXCEPT ![t].rem0 = removed[key],
                                             ![t].gone0 = gone[key],
                                             ![t].late0 = Late(key, now),
                                             ![t].fresh0 = hist[key].fresh]
  IN /\ CanStart(t)
     /\ nOps' = nOps + 1
     /\ memoryCache' = g.cache
     /\ IF g.found
        THEN /\ cacheStats' = CountHit(cacheStats)
             /\ task' = Returns(t, g.value, "memory",
                                [tk EXCEPT ![t].age = g.age, ![t].ttl = g.ttl])
             /\ hist' = [hist EXCEPT ![key].fresh = FALSE]
        ELSE IF redisAvailable /\ redisClient
        THEN /\ \E ok \in BOOLEAN :
                  task' = [tk EXCEPT ![t].pc = "get.redis",
                                     ![t].reply = IF ok THEN RedisGet(redis, key, now)
                                                  ELSE RedisError]
             /\ UNCHANGED <<cacheStats, hist>>
        ELSE /\ cacheStats' = CountMiss(cacheStats)
             /\ task' = Returns(t, "null", "", tk)
             /\ UNCHANGED hist
     /\ UNCHANGED <<now, redisClient, redisAvailable, redis, removed, gone,
                    regVars, rankVars, edgeVars>>

\* get, from the reply of redisClient.get on
GetReply(t) ==
  LET r == task[t].reply
      key == task[t].key
  IN /\ task[t].pc = "get.redis"
     /\ IF r.kind = "str" /\ Truthy(r.raw) /\ JsonParses(r.raw)
        THEN /\ memoryCache' = LruSet(memoryCache, key, JsonParse(r.raw),
                                      DEFAULT_TTL, now)
             /\ cacheStats' = CountPromoted(cacheStats)
             /\ hist' = [hist EXCEPT ![key].fresh = FALSE]
             /\ task' = Returns(t, JsonParse(r.raw), "redis", task)
             /\ UNCHANGED redis
        ELSE IF r.kind = "str" /\ Truthy(r.raw)
        THEN /\ \E ok \in BOOLEAN :
                  /\ redis' = IF ok THEN RedisDel(redis, {key}) ELSE redis
                  /\ task' = [task EXCEPT ![t].pc = "get.del",
                                          ![t].reply = IF ok THEN RedisDone
                                                       ELSE RedisError]
             /\ UNCHANGED <<memoryCache, cacheStats, hist>>
        ELSE /\ cacheStats' = CountMiss(cacheStats)
             /\ task' = Returns(t, "null", "", task)
             /\ UNCHANGED <<memoryCache, hist, redis>>
     /\ UNCHANGED <<now, redisClient, redisAvailable, nOps, removed, gone,
                    regVars, rankVars, edgeVars>>

\* get, from the reply of the del of a value that did not parse on
GetDelReply(t) ==
  /\ task[t].pc = "get.del"
  /\ cacheStats' = CountMiss(cacheStats)
  /\ task' = Returns(t, "null", "del", task)
  /\ UNCHANGED <<now, memoryCache, redisClient, redisAvailable, redis, nOps, hist,
                 removed, gone, regVars, rankVars, edgeVars>>

\* history: a set of key begins; the reads and removals of key in flight no
\* longer answer for it
Overtaken(tk, t, key) ==
  [u \in Tasks |->
     IF u = t \/ Free(u) THEN tk[u]
     ELSE [tk[u] EXCEPT !.rem0 = IF tk[u].key = key THEN {} ELSE @,
                        !.gone0 = IF tk[u].key = key THEN {} ELSE @,
                        !.late0 = IF tk[u].key = key THEN FALSE ELSE @,
                        !.targets = @ \ {key}]]

\* set, up to its await of redisClient.set or to its return
Set(t, call, key, value, options) ==
  LET ttl == ResolvedTtl(options)
      tk == Overtaken(Begins(t, call, "set", key), t, key)
  IN /\ CanStart(t)
     /\ nOps' = nOps + 1
     /\ memoryCache' = LruSet(memoryCache, key, value, ttl, now)
     /\ hist' = [hist EXCEPT ![key] =
                   [setAt |-> now, ttl |-> ttl, fresh |-> TRUE, value |-> value,
                    setOp |-> nOps + 1,
                    alone |-> \A u \in Tasks : Free(u)]]
     /\ removed' = [removed EXCEPT ![key] = {}]
     /\ gone' = [gone EXCEPT ![key] = {}]
     /\ IF options.level = "redis" /\ redisAvailable /\ redisClient
           /\ JsonStringifies(value)
        THEN \E ok \in BOOLEAN :
               /\ redis' = IF ok THEN RedisSet(redis, key, JsonStringify(value),
                                               ttl, now)
                           ELSE redis
               /\ task' = [tk EXCEPT ![t].pc = "set.redis",
                                     ![t].reply = IF ok THEN RedisDone
                                                  ELSE RedisError]
        ELSE /\ task' = [Newer(tk, t, {key}, "set") EXCEPT
                           ![t].pc = "done", ![t].result = "void"]
             /\ UNCHANGED redis
     /\ UNCHANGED <<now, redisClient, redisAvailable, cacheStats, regVars, rankVars, edgeVars>>

\* set, from the reply of redisClient.set on
SetReply(t) ==
  /\ task[t].pc = "set.redis"
  /\ task' = [Newer(task, t, {task[t].key}, "set") EXCEPT
                ![t].pc = "done", ![t].reply = NoReply, ![t].result = "void"]
  /\ UNCHANGED <<now, memoryCache, redisClient, redisAvailable, redis, cacheStats, nOps,
                 hist, removed, gone, regVars, rankVars, edgeVars, matchVars>>

\* delete, up to its await of redisClient.del or to its return
Delete(t, call, key) ==
  LET tk == [Begins(t, call, "delete", key) EXCEPT
               ![t].targets = Targets("delete", key)]
      mem == LruDelete(memoryCache, key)
  IN /\ CanStart(t)
     /\ nOps' = nOps + 1
     /\ memoryCache' = mem
     /\ IF redisAvailable /\ redisClient
        THEN /\ \E ok \in BOOLEAN :
                  /\ redis' = IF ok THEN RedisDel(redis, {key}) ELSE redis
                  /\ task' = [tk EXCEPT ![t].pc = "delete.redis",
                                        ![t].reply = IF ok THEN RedisDone
                                                     ELSE RedisError]
             /\ UNCHANGED <<removed, gone>>
        ELSE /\ Completes(t, tk, mem, redis)
             /\ UNCHANGED redis
     /\ UNCHANGED <<now, redisClient, redisAvailable, cacheStats, hist, regVars,
                    rankVars, edgeVars, matchVars>>

\* delete, from the reply of redisClient.del on
DeleteReply(t) ==
  /\ task[t].pc = "delete.redis"
  /\ Completes(t, task, memoryCache, redis)
  /\ UNCHANGED <<now, memoryCache, redisClient, redisAvailable, redis, cacheStats, nOps,
                 hist, regVars, rankVars, edgeVars, matchVars>>

\* deleteByPrefix, up to its await of redisClient.keys or to its return
DeleteByPrefix(t, call, prefix, targets) ==
  LET tk == [Begins(t, call, "deleteByPrefix", prefix) EXCEPT
               ![t].targets = targets]
      mem == LruDeleteAll(memoryCache,
                          {k \in LruKeys(memoryCache, now) : StartsWith(k, prefix)})
  IN /\ CanStart(t)
     /\ nOps' = nOps + 1
     /\ memoryCache' = mem
     /\ IF redisAvailable /\ redisClient
        THEN /\ \E ok \in BOOLEAN :
                  task' = [tk EXCEPT
                             ![t].pc = "dbp.keys",
                             ![t].reply =
                               IF ok THEN RedisKeys(redis, prefix \o <<"*">>, now)
                               ELSE RedisError]
             /\ UNCHANGED <<removed, gone>>
        ELSE Completes(t, tk, mem, redis)
     /\ UNCHANGED <<now, redisClient, redisAvailable, redis, cacheStats, hist,
                    regVars, rankVars, edgeVars, matchVars>>

\* deleteByPrefix, from the reply of redisClient.keys on
DeleteByPrefixKeysReply(t) ==
  LET r == task[t].reply
  IN /\ task[t].pc = "dbp.keys"
     /\ IF r.kind = "keys" /\ r.keys # {}
        THEN /\ \E ok \in BOOLEAN :
                  /\ redis' = IF ok THEN RedisDel(redis, r.keys) ELSE redis
                  /\ task' = [task EXCEPT ![t].pc = "dbp.del",
                                          ![t].reply = IF ok THEN RedisDone
                                                       ELSE RedisError]
             /\ UNCHANGED <<removed, gone>>
        ELSE /\ Completes(t, task, memoryCache, redis)
             /\ UNCHANGED redis
     /\ UNCHANGED <<now, memoryCache, redisClient, redisAvailable, cacheStats, nOps,
                    hist, regVars, rankVars, edgeVars, matchVars>>

\* deleteByPrefix, from the reply of redisClient.del on
DeleteByPrefixDelReply(t) ==
  /\ task[t].pc = "dbp.del"
  /\ Completes(t, task, memoryCache, redis)
  /\ UNCHANGED <<now, memoryCache, redisClient, redisAvailable, redis, cacheStats, nOps,
                 hist, regVars, rankVars, edgeVars, matchVars>>

\* resetStats
ResetStats ==
  /\ nOps < MaxOps
  /\ nOps' = nOps + 1
  /\ cacheStats' = [hits |-> 0, misses |-> 0]
  /\ UNCHANGED <<now, memoryCache, redisClient, redisAvailable, redis, task,
                 hist, removed, gone, regVars, rankVars, edgeVars, matchVars>>

\* the period of statsInterval, 60 * 60 * 1000 ms, in seconds
STATS_INTERVAL == 3600

\* the callback of statsInterval: another hour has passed and logStats runs
LogStats ==
  /\ now < 1 + MaxHours * STATS_INTERVAL
  /\ now' = now + STATS_INTERVAL
  /\ cacheStats' = [hits |-> 0, misses |-> 0]
  /\ UNCHANGED <<memoryCache, redisClient, redisAvailable, redis, task, nOps,
                 hist, removed, gone, regVars, rankVars, edgeVars, matchVars>>

\* the 'connect' event of the client
RedisConnect ==
  /\ redisClient
  /\ ~redisAvailable
  /\ redisAvailable' = TRUE
  /\ UNCHANGED <<now, memoryCache, redisClient, redis, cacheStats, task, nOps, hist,
                 removed, gone, regVars, rankVars, edgeVars, matchVars>>

\* the 'error' event of the client
RedisErrorEvent ==
  /\ redisClient
  /\ redisAvailable
  /\ redisAvailable' = FALSE
  /\ UNCHANGED <<now, memoryCache, redisClient, redis, cacheStats, task, nOps, hist,
                 removed, gone, regVars, rankVars, edgeVars, matchVars>>

\* another client of the same Redis writes something that is not JSON
ForeignWrite(key) ==
  /\ redisClient
  /\ nOps < MaxOps
  /\ nOps' = nOps + 1
  /\ redis' = RedisSet(redis, key, Garbage, PRIORITY_TTL("normal"), now)
  /\ UNCHANGED <<now, memoryCache, redisClient, redisAvailable, cacheStats, task, hist,
                 removed, gone, regVars, rankVars, edgeVars, matchVars>>

\* no request to the match route
IdleMatch ==
  [pc |-> "idle", url |-> <<>>, source |-> "", startTime |-> 0,
   requestSource |-> "", status |-> 0, before |-> <<0, 0>>]

\* history: no set of the key yet
NoHist ==
  [setAt |-> 0, ttl |-> 0, fresh |-> FALSE, value |-> "null", setOp |-> 0,
   alone |-> FALSE]

\* the cache service after its construction, before any Redis event
CacheInit ==
  /\ memoryCache = <<>>
  /\ redisAvailable = FALSE
  /\ redis = <<>>
  /\ cacheStats = [hits |-> 0, misses |-> 0]
  /\ task = [t \in Tasks |-> IdleTask]
  /\ nOps = 0
  /\ hist = [k \in Keys |-> NoHist]
  /\ removed = [k \in Keys |-> {}]
  /\ gone = [k \in Keys |-> {}]
  /\ match = IdleMatch


(***************************************************************************)
(* CacheService.initRedis: the connection to the shared tier.  The client  *)
(* emits 'connect' when a connect() call succeeds and 'end' when an        *)
(* established connection closes; setTimeout callbacks run in any order.   *)
(***************************************************************************)
maxReconnectAttempts == 10

\* a variant with a delay that grows linearly
LinearDelay(n) == IF n * 100 < 30000 THEN n * 100 ELSE 30000

\* Math.min(Math.pow(2, reconnectAttempts) * 100, 30000), in milliseconds
ReconnectDelay(n) == IF (2 ^ n) * 100 < 30000 THEN (2 ^ n) * 100 ELSE 30000

\* the connect() call of initRedis itself, as against those of the timers
InitialConnect == 0

\* initRedis before createClient, or without REDIS_URL
NoConn ==
  [reconnectAttempts |-> 0, timers |-> {}, connecting |-> {}, up |-> FALSE,
   scheduled |-> <<>>, ends |-> 0, failed |-> 0]

\* initRedis suspended at its await of the first connect()
FirstConnect == [NoConn EXCEPT !.connecting = {InitialConnect}]

\* reconnect(): counts the attempt and sets its timer, or gives up
Reconnect(c) ==
  IF c.reconnectAttempts >= maxReconnectAttempts THEN c
  ELSE LET n == c.reconnectAttempts + 1
       IN [c EXCEPT !.reconnectAttempts = n,
                    !.timers = @ \cup {[n |-> n, delay |-> ReconnectDelay(n)]},
                    !.scheduled = Append(@, ReconnectDelay(n))]

ConnFrame ==
  UNCHANGED <<now, memoryCache, redisClient, redis, cacheStats, task, nOps, hist,
              removed, gone, regVars, rankVars, matchVars, authVars>>

\* the first connect() resolves: 'connect' is emitted, the counter is reset
InitialConnectResolves ==
  /\ InitialConnect \in conn.connecting
  /\ redisAvailable' = TRUE
  /\ conn' = [conn EXCEPT !.connecting = @ \ {InitialConnect}, !.up = TRUE,
                          !.reconnectAttempts = 0]
  /\ ConnFrame

\* the first connect() rejects
InitialConnectRejects ==
  /\ InitialConnect \in conn.connecting
  /\ conn' = Reconnect([conn EXCEPT !.connecting = @ \ {InitialConnect}])
  /\ UNCHANGED redisAvailable
  /\ ConnFrame

\* the callback of a timer set by reconnect(), up to its await of connect()
TimerFires(tm) ==
  /\ tm \in conn.timers
  /\ conn' = [conn EXCEPT !.timers = @ \ {tm},
                          !.connecting = IF ~redisAvailable /\ redisClient
                                         THEN @ \cup {tm.n} ELSE @]
  /\ UNCHANGED redisAvailable
  /\ ConnFrame

\* the connect() of attempt n resolves: 'connect' is emitted
ConnectResolves(n) ==
  /\ n \in conn.connecting \ {InitialConnect}
  /\ redisAvailable' = TRUE
  /\ conn' = [conn EXCEPT !.connecting = @ \ {n}, !.up = TRUE]
  /\ ConnFrame

\* the connect() of attempt n rejects: the catch block calls reconnect()
ConnectRejects(n) ==
  /\ n \in conn.connecting \ {InitialConnect}
  /\ conn' = Reconnect([conn EXCEPT !.connecting = @ \ {n}, !.failed = @ + 1])
  /\ UNCHANGED redisAvailable
  /\ ConnFrame

\* the 'end' event: the established connection has closed
EndEvent ==
  /\ conn.up
  /\ redisAvailable' = FALSE
  /\ conn' = Reconnect([conn EXCEPT !.up = FALSE, !.ends = @ + 1])
  /\ ConnFrame

\* the 'error' event on an established connection
ErrorEvent ==
  /\ conn.up
  /\ redisAvailable
  /\ redisAvailable' = FALSE
  /\ UNCHANGED conn
  /\ ConnFrame

(***************************************************************************)
(* The authentication middlewares.                                         *)
(***************************************************************************)
NoAuth == [mw |-> "none"]

\* neither the connection logic nor a middleware has run
\* a config with both middlewares switched off
QuietConfig ==
  [ENABLE_API_AUTH |-> FALSE, API_KEYS |-> <<>>, NODE_ENV |-> "production",
   ENABLE_IP_WHITELIST |-> FALSE, IP_WHITELIST |-> <<>>, TRUST_PROXY |-> FALSE]

\* neither the connection logic nor a middleware has run
EdgeQuiet ==
  /\ conn = NoConn
  /\ apiKeyCache = <<>>
  /\ authOut = NoAuth
  /\ config = QuietConfig

(***************************************************************************)
(* The API-key middleware.  A key is a string, "" standing for a header or *)
(* parameter that is absent or empty (both are falsy); an authorization    *)
(* header is <<scheme, credentials>>, <<>> when absent.                    *)
(***************************************************************************)
API_AUTH_WHITELIST == {"/", "/favicon.png", "/favicon.ico"}

\* the lifetime of an apiKeyCache entry, 30 * 60 * 1000 ms, in seconds
API_KEY_CACHE_TTL == 1800
\* the period of the timer that removes expired entries, in seconds
CLEANUP_INTERVAL == 300

\* key.trim().length > 0
NonBlank(key) == key \notin {"", " "}

\* String(config.API_KEYS || '').split(',').filter(key => key.trim().length > 0)
ValidApiKeys(keys) == SelectSeq(keys, NonBlank)

\* request.headers['authorization']?.split('Bearer ')[1]
BearerToken(authorization) ==
  IF Len(authorization) = 2 /\ authorization[1] = "Bearer" THEN authorization[2] ELSE ""

\* the key of a request: x-api-key, else the Bearer token, else, outside
\* production, the api_key parameter of the query
ApiKeyOf(request, env) ==
  IF request.xApiKey # "" THEN request.xApiKey
  ELSE IF BearerToken(request.authorization) # "" THEN BearerToken(request.authorization)
  ELSE IF env # "production" THEN request.queryApiKey
  ELSE ""

\* secureCompare: equal length and equal bytes
SecureCompare(a, b) == a = b

\* validApiKeys.some(validKey => secureCompare(String(apiKey), validKey))
IsValidKey(validApiKeys, apiKey) ==
  \E i \in 1..Len(validApiKeys) : SecureCompare(apiKey, validApiKeys[i])

\* apiKeyCache.set(key, { valid, expires })
CacheKeyResult(c, key, valid, expires) ==
  [k \in (DOMAIN c) \cup {key} |->
     IF k = key THEN [valid |-> valid, expires |-> expires] ELSE c[k]]

\* the outcome of a middleware call: status 0 when no reply was sent
Outcome(mw, request, status) ==
  [mw |-> mw, request |-> request, status |-> status]

AuthFrame == UNCHANGED <<now, regVars, rankVars, cacheVars, matchVars, connVars, config>>

\* the middleware createApiKeyAuthMiddleware(config) returns, on one request
ApiKeyAuth(request) ==
  LET validApiKeys == ValidApiKeys(config.API_KEYS)
      apiKey == ApiKeyOf(request, config.NODE_ENV)
      isValid == IsValidKey(validApiKeys, apiKey)
  IN /\ IF ~config.ENABLE_API_AUTH \/ Len(validApiKeys) = 0
        THEN /\ authOut' = Outcome("apiKeyAuth", request, 0)
             /\ UNCHANGED apiKeyCache
        ELSE IF request.path \in API_AUTH_WHITELIST
        THEN /\ authOut' = Outcome("apiKeyAuth", request, 0)
             /\ UNCHANGED apiKeyCache
        ELSE IF apiKey = ""
        THEN /\ authOut' = Outcome("apiKeyAuth", request, 401)
             /\ UNCHANGED apiKeyCache
        ELSE IF apiKey \in DOMAIN apiKeyCache /\ apiKeyCache[apiKey].expires > now
        THEN /\ authOut' = Outcome("apiKeyAuth", request,
                                    IF apiKeyCache[apiKey].valid THEN 0 ELSE 401)
             /\ UNCHANGED apiKeyCache
        ELSE /\ apiKeyCache' = CacheKeyResult(apiKeyCache, apiKey, isValid,
                                               now + API_KEY_CACHE_TTL)
             /\ authOut' = Outcome("apiKeyAuth", request, IF isValid THEN 0 ELSE 401)
     /\ AuthFrame

\* five minutes pass and the clean-up timer of apiKeyCache fires
ApiKeyCacheCleanup ==
  /\ now < 1 + MaxCleanups * CLEANUP_INTERVAL
  /\ now' = now + CLEANUP_INTERVAL
  /\ apiKeyCache' = [k \in {x \in DOMAIN apiKeyCache : ~(apiKeyCache[x].expires < now')}
                       |-> apiKeyCache[k]]
  /\ UNCHANGED <<authOut, config, regVars, rankVars, cacheVars, matchVars, connVars>>

(***************************************************************************)
(* The IP whitelist middleware.  An address is the sequence of its parts:  *)
(* four for the dotted form, eight for the colon form.  A whitelist entry  *)
(* is [parts, bits]: parts may hold Star for '*', bits is the number after *)
(* '/' or NoBits.                                                          *)
(***************************************************************************)
\* the part '*' of a pattern
Star == -1
\* an entry without '/'
NoBits == -1

\* isValidIp: four parts of one to three digits, each at most 255, or eight
\* groups of one to four hex digits
IsValidIp(ip) ==
  \/ Len(ip) = 4 /\ \A i \in 1..4 : ip[i] \in 0..255
  \/ Len(ip) = 8 /\ \A i \in 1..8 : ip[i] \in 0..65535

\* ip.includes('.')
Dotted(ip) == Len(ip) \in 2..4

\* ipMatchesWildcard
IpMatchesWildcard(ip, pattern) ==
  IF Star \notin Range(pattern) THEN ip = pattern
  ELSE /\ Dotted(ip)
       /\ Len(ip) = 4 /\ Len(pattern) = 4
       /\ \A i \in 1..4 : pattern[i] = Star \/ ip[i] = pattern[i]

\* the upper and the lower sixteen bits of ipToLong(ip)
UpperHalf(ip) == ip[1] * 256 + ip[2]
LowerHalf(ip) == ip[3] * 256 + ip[4]

\* 0xffffffff << (32 - mask): the shift count of << is taken modulo 32
MaskShift(mask) == (32 - mask) % 32

\* ipInCidrRange: (ipNum & maskBits) === (rangeNum & maskBits)
IpInCidrRange(ip, range, mask) ==
  /\ Dotted(ip)
  /\ mask \in 0..32
  /\ IF MaskShift(mask) >= 16
     THEN UpperHalf(ip) \div (2 ^ (MaskShift(mask) - 16))
            = UpperHalf(range) \div (2 ^ (MaskShift(mask) - 16))
     ELSE /\ UpperHalf(ip) = UpperHalf(range)
          /\ LowerHalf(ip) \div (2 ^ MaskShift(mask))
               = LowerHalf(range) \div (2 ^ MaskShift(mask))

\* getRealIp: the first address of x-forwarded-for, else x-real-ip, else
\* request.ip
GetRealIp(request) ==
  IF Len(request.forwardedFor) > 0 THEN request.forwardedFor[1]
  ELSE IF Len(request.realIp) > 0 THEN request.realIp[1]
  ELSE request.ip

ClientIp(request) == IF config.TRUST_PROXY THEN GetRealIp(request) ELSE request.ip

\* ipList.map(ip => ip.trim()).filter(ip => ip.length > 0)
NonEmptyEntry(entry) == Len(entry.parts) > 0
AllowedIps(whitelist) == SelectSeq(whitelist, NonEmptyEntry)

\* the entry '*'
StarEntry == [parts |-> <<Star>>, bits |-> NoBits]

\* allowedIps.includes('*') || allowedIps.length === 0
AllowAll(allowedIps) == StarEntry \in Range(allowedIps) \/ Len(allowedIps) = 0

\* the sorting of the entries: ip.includes('*'), else ip.includes('/')
IsWildcard(entry) == Star \in Range(entry.parts)
IsCidr(entry) == ~IsWildcard(entry) /\ entry.bits # NoBits
IsExact(entry) == ~IsWildcard(entry) /\ entry.bits = NoBits

\* exactIps.includes(clientIp), a matching wildcard, or a matching range
IsAllowed(allowedIps, clientIp) ==
  \E i \in 1..Len(allowedIps) :
    LET entry == allowedIps[i]
    IN \/ IsExact(entry) /\ entry.parts = clientIp
       \/ IsWildcard(entry) /\ IpMatchesWildcard(clientIp, entry.parts)
       \/ IsCidr(entry) /\ IpInCidrRange(clientIp, entry.parts, entry.bits)

\* the middleware createIpWhitelistAuthMiddleware(config) returns, on one request
IpWhitelistAuth(request) ==
  LET allowedIps == AllowedIps(config.IP_WHITELIST)
      clientIp == ClientIp(request)
  IN /\ authOut' =
          Outcome("ipWhitelistAuth", request,
                  IF ~config.ENABLE_IP_WHITELIST THEN 0
                  ELSE IF AllowAll(allowedIps) THEN 0
                  ELSE IF ~IsValidIp(clientIp) THEN 403
                  ELSE IF ~IsAllowed(allowedIps, clientIp) THEN 403
                  ELSE 0)
     /\ UNCHANGED apiKeyCache
     /\ AuthFrame

\* the addresses of the requests: two of a private network, the loopback
\* address in colon form, and a forwarded value that is no address
PeerA == <<10, 0, 0, 1>>
PeerB == <<10, 0, 7, 2>>
LoopbackV6 == <<0, 0, 0, 0, 0, 0, 0, 1>>
NoAddress == <<999, 0, 1>>

IpRequests ==
  [ip : {PeerA, PeerB, LoopbackV6},
   forwardedFor : {<<>>, <<PeerB, PeerA>>, <<NoAddress>>},
   realIp : {<<>>, <<PeerA>>}]

\* the whitelists: empty, blank, '*', single addresses, a pattern, ranges
Whitelists ==
  {<<>>,
   <<[parts |-> <<>>, bits |-> NoBits]>>,
   <<StarEntry>>,
   <<[parts |-> PeerA, bits |-> NoBits]>>,
   <<[parts |-> PeerB, bits |-> NoBits], StarEntry>>,
   <<[parts |-> <<10, 0, Star, 2>>, bits |-> NoBits]>>,
   <<[parts |-> <<10, 0, 0, 0>>, bits |-> 24], [parts |-> LoopbackV6, bits |-> NoBits]>>,
   <<[parts |-> <<10, 0, 0, 0>>, bits |-> 8]>>,
   <<[parts |-> <<0, 0, 0, 0>>, bits |-> 0]>>}

\* the configs of the IP whitelist middleware
IpConfigs ==
  {[QuietConfig EXCEPT !.ENABLE_IP_WHITELIST = enabled, !.IP_WHITELIST = whitelist,
                       !.TRUST_PROXY = trust] :
     enabled \in BOOLEAN, whitelist \in Whitelists, trust \in BOOLEAN}

\* the header and query combinations of the requests
Credentials ==
  {[xApiKey |-> "", authorization |-> <<>>, queryApiKey |-> ""],
   [xApiKey |-> "k1", authorization |-> <<>>, queryApiKey |-> ""],
   [xApiKey |-> "bad", authorization |-> <<>>, queryApiKey |-> ""],
   [xApiKey |-> "", authorization |-> <<"Bearer", "k1">>, queryApiKey |-> ""],
   [xApiKey |-> "", authorization |-> <<"Bearer", "bad">>, queryApiKey |-> ""],
   [xApiKey |-> "", authorization |-> <<"Bearer", "">>, queryApiKey |-> ""],
   [xApiKey |-> "", authorization |-> <<"Basic", "k1">>, queryApiKey |-> ""],
   [xApiKey |-> "bad", authorization |-> <<"Bearer", "k1">>, queryApiKey |-> ""],
   [xApiKey |-> "", authorization |-> <<>>, queryApiKey |-> "k1"]}

\* request.url.split('?')[0] is the path; the rest of the url is the query
ApiRequests ==
  {[path |-> path, xApiKey |-> c.xApiKey, authorization |-> c.authorization,
    queryApiKey |-> c.queryApiKey] :
     path \in {"/", "/v1/api/match"}, c \in Credentials}

\* the configs of the API-key middleware
ApiConfigs ==
  {[QuietConfig EXCEPT !.ENABLE_API_AUTH = enabled, !.API_KEYS = keys, !.NODE_ENV = env] :
     enabled \in BOOLEAN, keys \in {<<>>, <<"k1">>, <<"", "k2", "k1">>},
     env \in {"production", "development"}}

(***************************************************************************)
(* Ranking calls.                                                          *)
(***************************************************************************)
CandidateLists ==
  {<<>>, <<"kugou">>, <<"kuwo">>, <<"other">>, <<"kuwo", "bilibili">>,
   <<"fresh", "kugou">>, <<"kuwo", "ytdlp", "kugou">>, <<"nostats", "migu", "fresh">>,
   <<"ytdlp", "joox">>, <<"qq", "ytdlp", "migu", "kugou">>,
   <<"nostats", "qq", "kugou">>}

\* the networkType values of adjustSourcesForNetwork
NetworkTypes == {"wifi", "4g", "3g", "2g", "unknown"}

NoRank == [call |-> "none"]

RankSourcesCall(sources) ==
  /\ rankOut' = [call |-> "rankSources", input |-> sources,
                 result |-> RankSources(sourceStats, sources)]
  /\ UNCHANGED <<now, regVars, cacheVars, matchVars, edgeVars>>

GetBestSourceCall(sources) ==
  /\ rankOut' = [call |-> "getBestSource", input |-> sources,
                 result |-> GetBestSource(sourceStats, sources)]
  /\ UNCHANGED <<now, regVars, cacheVars, matchVars, edgeVars>>

AdjustSourcesForNetworkCall(sources, networkType) ==
  /\ rankOut' = [call |-> "adjustSourcesForNetwork", input |-> sources,
                 network |-> networkType,
                 result |-> AdjustSourcesForNetwork(sourceStats, sources, networkType)]
  /\ UNCHANGED <<now, regVars, cacheVars, matchVars, edgeVars>>

\* the tables the ranking calls are made on: the seeds, with the stats of some
\* sources replaced by what a run of recordSourceResult calls leaves
StatsChoices(s) ==
  {ZeroStats(SeedQuality(s)),
   RecordN(ZeroStats(SeedQuality(s)), 6, FALSE, 0),
   RecordN(ZeroStats(SeedQuality(s)), 2, TRUE, 100),
   RecordN(RecordN(ZeroStats(SeedQuality(s)), 1, TRUE, 800), 1, FALSE, 0)}

\* at the thresholds of the filter: five failures; two successes in ten
\* requests; and one success slower than a second
ThresholdChoices(s) ==
  {RecordN(ZeroStats(SeedQuality(s)), 5, FALSE, 0),
   RecordN(RecordN(ZeroStats(SeedQuality(s)), 2, TRUE, 100), 8, FALSE, 0),
   RecordN(ZeroStats(SeedQuality(s)), 1, TRUE, 1500)}

\* one success, with a response time at or above the network thresholds
LatencyChoices(s, times) ==
  {ZeroStats(SeedQuality(s))}
    \cup {RecordN(ZeroStats(SeedQuality(s)), 1, TRUE, ms) : ms \in times}

\* tables around the filter and the composite score
FilterTables ==
  {Overlay(Overlay(Seeds,
             [s \in {"kugou", "kuwo"} |-> IF s = "kugou" THEN kugou ELSE kuwo]),
           other) :
     kugou \in StatsChoices("kugou") \cup ThresholdChoices("kugou"),
     kuwo \in StatsChoices("kuwo"),
     other \in {EmptyMap} \cup {[s \in {"other"} |-> c] : c \in StatsChoices("other")}}

\* tables around the thresholds of adjustSourcesForNetwork
NetworkTables ==
  {Overlay(Seeds,
     [s \in {"kugou", "ytdlp", "qq", "migu"} |->
        CASE s = "kugou" -> kugou
          [] s = "ytdlp" -> ytdlp
          [] s = "qq" -> qq
          [] s = "migu" -> migu]) :
     kugou \in StatsChoices("kugou") \ {RecordN(ZeroStats(SeedQuality("kugou")), 6, FALSE, 0)},
     ytdlp \in LatencyChoices("ytdlp", {300, 500, 800}),
     qq \in LatencyChoices("qq", {800}),
     migu \in LatencyChoices("migu", {800})}

RankTables == FilterTables \cup NetworkTables

RegNext ==
  \/ \E c \in Callers, source \in RecordSources, o \in Outcomes :
       RecordRequest(c, source, o[1], o[2])
  \/ \E c \in Callers : RecordSourceResult(c)
  \/ \E c \in Callers : RecordReply(c)
  \/ \E source \in RecordSources : ResetSourceStats(source)
  \/ ResetAllSourceStats

RegistryInit ==
  /\ now = 1
  /\ RegInit
  /\ rankOut = NoRank
  /\ EdgeQuiet
  /\ redisClient = FALSE
  /\ CacheInit

\* the statistics registry; Date.now() is the clock, which stands still here:
\* the registry only stores the timestamps
RegistrySpec == RegistryInit /\ [][RegNext]_vars

\* the statistics registry over several runs of the process
RestartNext ==
  \/ RegNext
  \/ Restart

RestartSpec == RegistryInit /\ [][RestartNext]_vars

RankNext ==
  \/ \E sources \in CandidateLists : RankSourcesCall(sources)
  \/ \E sources \in CandidateLists : GetBestSourceCall(sources)
  \/ \E sources \in CandidateLists, networkType \in NetworkTypes :
       AdjustSourcesForNetworkCall(sources, networkType)

RankInit ==
  /\ now = 1
  /\ hasLocalStorage = FALSE
  /\ storage = <<>>
  /\ sourceStats \in RankTables
  /\ req = [c \in Callers |-> Idle]
  /\ made = Accounted(sourceStats)
  /\ nRecorded = 0
  /\ okTimes = TimesFrom(sourceStats)
  /\ rankOut = NoRank
  /\ EdgeQuiet
  /\ redisClient = FALSE
  /\ CacheInit

\* the ranking engine, on a table of statistics
RankSpec == RankInit /\ [][RankNext]_vars

(***************************************************************************)
(* The cache service.                                                      *)
(***************************************************************************)
\* the registry as constructed without localStorage, untouched
RegQuiet ==
  /\ hasLocalStorage = FALSE
  /\ storage = <<>>
  /\ sourceStats = InitSourceStats(EmptyMap, FALSE, <<>>)
  /\ req = [c \in Callers |-> Idle]
  /\ made = Accounted(sourceStats)
  /\ nRecorded = 0
  /\ okTimes = TimesFrom(sourceStats)

CacheNext ==
  \/ \E t \in Tasks, op \in {"get", "has"}, key \in CacheKeys :
       Get(t, op, op, key) /\ UNCHANGED matchVars
  \/ \E t \in Tasks : GetReply(t) /\ UNCHANGED matchVars
  \/ \E t \in Tasks : GetDelReply(t) /\ UNCHANGED matchVars
  \/ \E t \in Tasks, key \in CacheKeys, value \in Values, options \in SetOptions :
       Set(t, "set", key, value, options) /\ UNCHANGED matchVars
  \/ \E t \in Tasks : SetReply(t)
  \/ \E t \in Tasks, key \in CacheKeys : Delete(t, "delete", key)
  \/ \E t \in Tasks : DeleteReply(t)
  \/ \E t \in Tasks, prefix \in Prefixes :
       DeleteByPrefix(t, "deleteByPrefix", prefix, Targets("deleteByPrefix", prefix))
  \/ \E t \in Tasks : DeleteByPrefixKeysReply(t)
  \/ \E t \in Tasks : DeleteByPrefixDelReply(t)
  \/ ResetStats
  \/ RedisConnect
  \/ RedisErrorEvent
  \/ \E key \in CacheKeys : ForeignWrite(key)
  \/ Tick

\* the cache service, in local-only mode or with a Redis client
CacheInitial ==
  /\ now = 1
  /\ RegQuiet
  /\ rankOut = NoRank
  /\ EdgeQuiet
  /\ redisClient \in BOOLEAN
  /\ CacheInit

CacheSpec == CacheInitial /\ [][CacheNext]_vars

\* a value no set of this run writes
OldValue == "z"

\* what an earlier run of the service, or another instance of it, has left in
\* the shared tier: one entry written by set, or one that does not parse
StoredBefore ==
  {[k \in {key} |-> [raw |-> raw, expireAt |-> 1 + PRIORITY_TTL("normal")]] :
     key \in CacheKeys,
     raw \in {JsonStringify(v) : v \in Values \cup {OldValue}}
            \cup {Garbage, EmptyString}}

\* the cache service started next to a shared tier that already holds an entry
WarmInit ==
  /\ now = 1
  /\ RegQuiet
  /\ rankOut = NoRank
  /\ EdgeQuiet
  /\ redisClient = TRUE
  /\ memoryCache = <<>>
  /\ redisAvailable = FALSE
  /\ redis \in StoredBefore
  /\ cacheStats = [hits |-> 0, misses |-> 0]
  /\ task = [t \in Tasks |-> IdleTask]
  /\ nOps = 0
  /\ hist = [k \in Keys |-> NoHist]
  /\ removed = [k \in Keys |-> {}]
  /\ gone = [k \in Keys |-> {}]
  /\ match = IdleMatch

WarmNext ==
  \/ \E t \in Tasks, key \in CacheKeys :
       Get(t, "get", "get", key) /\ UNCHANGED matchVars
  \/ \E t \in Tasks : GetReply(t) /\ UNCHANGED matchVars
  \/ \E t \in Tasks : GetDelReply(t) /\ UNCHANGED matchVars
  \/ \E t \in Tasks, key \in CacheKeys, value \in Values, options \in SetOptions :
       Set(t, "set", key, value, options) /\ UNCHANGED matchVars
  \/ \E t \in Tasks : SetReply(t)
  \/ \E t \in Tasks, key \in CacheKeys : Delete(t, "delete", key)
  \/ \E t \in Tasks : DeleteReply(t)
  \/ RedisConnect
  \/ RedisErrorEvent

\* the clock stands still: the entries live for minutes
WarmSpec == WarmInit /\ [][WarmNext]_vars

\* the key of the entry the shared tier holds at the start
WarmKey == GetSongKey(<<"1">>, "kugou")

\* the cache service started next to a shared tier that holds one entry, which
\* does not parse
WriteInit ==
  /\ WarmInit
  /\ DOMAIN redis = {WarmKey}
  /\ redis[WarmKey].raw = Garbage

\* the options of the set calls: with and without a ttl, with and without a
\* priority
WriteOptions == (SetOptions \cup PriorityOptions) \ {DefaultOptionsOneSecond}

\* the calls of the cache service, with every kind of value and of options
WriteNext ==
  \/ \E t \in Tasks : Get(t, "get", "get", WarmKey) /\ UNCHANGED matchVars
  \/ \E t \in Tasks : GetReply(t) /\ UNCHANGED matchVars
  \/ \E t \in Tasks : GetDelReply(t) /\ UNCHANGED matchVars
  \/ \E t \in Tasks, key \in CacheKeys, value \in AllValues, options \in WriteOptions :
       Set(t, "set", key, value, options) /\ UNCHANGED matchVars
  \/ \E t \in Tasks : SetReply(t)
  \/ \E t \in Tasks : Delete(t, "delete", WarmKey)
  \/ \E t \in Tasks : DeleteReply(t)
  \/ \E t \in Tasks :
       DeleteByPrefix(t, "deleteByPrefix", GetSongKey(<<"1">>, ""),
                      Targets("deleteByPrefix", GetSongKey(<<"1">>, "")))
  \/ \E t \in Tasks : DeleteByPrefixKeysReply(t)
  \/ \E t \in Tasks : DeleteByPrefixDelReply(t)
  \/ RedisConnect
  \/ RedisErrorEvent

WriteSpec == WriteInit /\ [][WriteNext]_vars

\* the cache service with REDIS_URL set, suspended at its first connect()
ConnInit ==
  /\ now = 1
  /\ RegQuiet
  /\ rankOut = NoRank
  /\ conn = FirstConnect
  /\ apiKeyCache = <<>>
  /\ authOut = NoAuth
  /\ config = QuietConfig
  /\ redisClient = TRUE
  /\ CacheInit

\* the connection events, and calls of the cache service between them
ConnNext ==
  \/ InitialConnectResolves
  \/ InitialConnectRejects
  \/ \E tm \in conn.timers : TimerFires(tm)
  \/ \E n \in 1..maxReconnectAttempts : ConnectResolves(n)
  \/ \E n \in 1..maxReconnectAttempts : ConnectRejects(n)
  \/ EndEvent
  \/ ErrorEvent
  \/ Set(1, "set", WarmKey, "a", [ttl |-> NoTtl, level |-> "redis", priority |-> "none"])
       /\ UNCHANGED matchVars
  \/ SetReply(1)
  \/ Get(1, "get", "get", WarmKey) /\ UNCHANGED matchVars
  \/ GetReply(1) /\ UNCHANGED matchVars

ConnSpec == ConnInit /\ [][ConnNext]_vars

ApiAuthInit ==
  /\ now = 1
  /\ RegQuiet
  /\ rankOut = NoRank
  /\ conn = NoConn
  /\ apiKeyCache = <<>>
  /\ authOut = NoAuth
  /\ config \in ApiConfigs
  /\ redisClient = FALSE
  /\ CacheInit

ApiAuthNext ==
  \/ \E request \in ApiRequests : ApiKeyAuth(request)
  \/ ApiKeyCacheCleanup

\* the API-key middleware of one config, over a sequence of requests
ApiAuthSpec == ApiAuthInit /\ [][ApiAuthNext]_vars

IpAuthInit ==
  /\ now = 1
  /\ RegQuiet
  /\ rankOut = NoRank
  /\ conn = NoConn
  /\ apiKeyCache = <<>>
  /\ authOut = NoAuth
  /\ config \in IpConfigs
  /\ redisClient = FALSE
  /\ CacheInit

IpAuthNext == \E request \in IpRequests : IpWhitelistAuth(request)

\* the IP whitelist middleware of one config, over a sequence of requests
IpAuthSpec == IpAuthInit /\ [][IpAuthNext]_vars

\* the cache service over some hours: its reads and writes, resetStats and the
\* hourly statistics timer
HourlyNext ==
  \/ \E t \in Tasks, op \in {"get", "has"} :
       Get(t, op, op, WarmKey) /\ UNCHANGED matchVars
  \/ \E t \in Tasks : GetReply(t) /\ UNCHANGED matchVars
  \/ \E t \in Tasks, options \in SetOptions :
       Set(t, "set", WarmKey, "a", options) /\ UNCHANGED matchVars
  \/ \E t \in Tasks : SetReply(t)
  \/ ResetStats
  \/ LogStats
  \/ RedisConnect

HourlySpec == CacheInitial /\ [][HourlyNext]_vars

(***************************************************************************)
(* SongCacheService: the facade over the cache service.                    *)
(***************************************************************************)
\* defaultOptions.duration
DEFAULT_DURATION == 86400

\* the options cacheSongInfo and cacheSongSourceInfo pass to set
SongOptions(useRedis) ==
  [ttl |-> DEFAULT_DURATION,
   level |-> IF useRedis THEN "redis" ELSE "memory",
   priority |-> "normal"]

CacheSongInfo(t, id, data, useRedis) ==
  /\ Set(t, "cacheSongInfo", GetSongKey(id, ""), data, SongOptions(useRedis))
  /\ UNCHANGED matchVars

CacheSongSourceInfo(t, id, source, data, useRedis) ==
  /\ Set(t, "cacheSongSourceInfo", GetSongKey(id, source), data,
         SongOptions(useRedis))
  /\ UNCHANGED matchVars

GetSongInfo(t, id) ==
  /\ Get(t, "getSongInfo", "get", GetSongKey(id, ""))
  /\ UNCHANGED matchVars

GetSongSourceInfo(t, id, source) ==
  /\ Get(t, "getSongSourceInfo", "get", GetSongKey(id, source))
  /\ UNCHANGED matchVars

ClearSourceCache(t, source) ==
  DeleteByPrefix(t, "clearSourceCache", SourcePrefix(source),
                 Targets("clearSourceCache", source))

\* DELETE /api/cache/clear?prefix=...
ClearPrefix(t, prefix) ==
  DeleteByPrefix(t, "deleteByPrefix", prefix, Targets("deleteByPrefix", prefix))

\* the TTL cacheSourceMatchResult passes: Math.min(opts.duration, 3600)
SourceMatchOptions(useRedis) ==
  [ttl |-> IF DEFAULT_DURATION < 3600 THEN DEFAULT_DURATION ELSE 3600,
   level |-> IF useRedis THEN "redis" ELSE "memory",
   priority |-> "low"]

CacheSourceMatchResult(t, id, sources, useRedis) ==
  /\ Set(t, "cacheSourceMatchResult", GetSourceKey(id), sources,
         SourceMatchOptions(useRedis))
  /\ UNCHANGED matchVars

GetSourceMatchResult(t, id) ==
  /\ Get(t, "getSourceMatchResult", "get", GetSourceKey(id))
  /\ UNCHANGED matchVars

\* the keys clearSongCache(id) is to remove: song:{id}* and source:{id}
SongTargets(id) ==
  {k \in Keys : StartsWith(k, GetSongKey(id, ""))} \cup {GetSourceKey(id)}

\* the id of the clearSongCache call in slot t
SongIdOf(t) == CHOOSE id \in Ids : GetSongKey(id, "") = task[t].key

\* clearSongCache, from the return of its deleteByPrefix on: delete(source:{id})
\* up to its await of redisClient.del or to its return
ThenDelete(t, id, tk, mem, r) ==
  LET key == GetSourceKey(id)
      mem2 == LruDelete(mem, key)
  IN /\ memoryCache' = mem2
     /\ IF redisAvailable /\ redisClient
        THEN /\ \E ok \in BOOLEAN :
                  /\ redis' = IF ok THEN RedisDel(r, {key}) ELSE r
                  /\ task' = [tk EXCEPT ![t].pc = "clear.delete",
                                        ![t].op = "delete",
                                        ![t].reply = IF ok THEN RedisDone
                                                     ELSE RedisError]
             /\ UNCHANGED <<removed, gone>>
        ELSE /\ Completes(t, tk, mem2, r)
             /\ redis' = r

\* clearSongCache: deleteByPrefix(song:{id}) up to its await of redisClient.keys,
\* or, without the shared tier, the whole call
ClearSongCache(t, id) ==
  LET prefix == GetSongKey(id, "")
      tk == [Begins(t, "clearSongCache", "deleteByPrefix", prefix) EXCEPT
               ![t].targets = SongTargets(id)]
      mem == LruDeleteAll(memoryCache,
                          {k \in LruKeys(memoryCache, now) : StartsWith(k, prefix)})
  IN /\ CanStart(t)
     /\ nOps' = nOps + 1
     /\ IF redisAvailable /\ redisClient
        THEN /\ \E ok \in BOOLEAN :
                  task' = [tk EXCEPT
                             ![t].pc = "clear.keys",
                             ![t].reply =
                               IF ok THEN RedisKeys(redis, prefix \o <<"*">>, now)
                               ELSE RedisError]
             /\ memoryCache' = mem
             /\ UNCHANGED <<redis, removed, gone>>
        ELSE ThenDelete(t, id, tk, mem, redis)
     /\ UNCHANGED <<now, redisClient, redisAvailable, cacheStats, hist,
                    regVars, rankVars, edgeVars, matchVars>>

\* clearSongCache, from the reply of redisClient.keys on
ClearSongCacheKeysReply(t) ==
  LET r == task[t].reply
  IN /\ task[t].pc = "clear.keys"
     /\ IF r.kind = "keys" /\ r.keys # {}
        THEN /\ \E ok \in BOOLEAN :
                  /\ redis' = IF ok THEN RedisDel(redis, r.keys) ELSE redis
                  /\ task' = [task EXCEPT ![t].pc = "clear.del",
                                          ![t].reply = IF ok THEN RedisDone
                                                       ELSE RedisError]
             /\ UNCHANGED <<memoryCache, removed, gone>>
        ELSE ThenDelete(t, SongIdOf(t), task, memoryCache, redis)
     /\ UNCHANGED <<now, redisClient, redisAvailable, cacheStats, nOps,
                    hist, regVars, rankVars, edgeVars, matchVars>>

\* clearSongCache, from the reply of the del of deleteByPrefix on
ClearSongCacheDelReply(t) ==
  /\ task[t].pc = "clear.del"
  /\ ThenDelete(t, SongIdOf(t), task, memoryCache, redis)
  /\ UNCHANGED <<now, redisClient, redisAvailable, cacheStats, nOps,
                 hist, regVars, rankVars, edgeVars, matchVars>>

\* clearSongCache, from the reply of the del of delete on
ClearSongCacheDeleteReply(t) ==
  /\ task[t].pc = "clear.delete"
  /\ Completes(t, task, memoryCache, redis)
  /\ UNCHANGED <<now, memoryCache, redisClient, redisAvailable, redis, cacheStats, nOps,
                 hist, regVars, rankVars, edgeVars, matchVars>>

SongNext ==
  \/ \E t \in Tasks, id \in Ids, data \in Values, useRedis \in BOOLEAN :
       CacheSongInfo(t, id, data, useRedis)
  \/ \E t \in Tasks, id \in Ids, source \in CacheSources, data \in Values,
        useRedis \in BOOLEAN :
       CacheSongSourceInfo(t, id, source, data, useRedis)
  \/ \E t \in Tasks, id \in Ids : GetSongInfo(t, id)
  \/ \E t \in Tasks, id \in Ids, source \in CacheSources :
       GetSongSourceInfo(t, id, source)
  \/ \E t \in Tasks, source \in CacheSources : ClearSourceCache(t, source)
  \/ \E t \in Tasks, prefix \in Prefixes : ClearPrefix(t, prefix)
  \/ \E t \in Tasks, id \in Ids, sources \in Values, useRedis \in BOOLEAN :
       CacheSourceMatchResult(t, id, sources, useRedis)
  \/ \E t \in Tasks, id \in Ids : GetSourceMatchResult(t, id)
  \/ \E t \in Tasks, id \in Ids : ClearSongCache(t, id)
  \/ \E t \in Tasks : ClearSongCacheKeysReply(t)
  \/ \E t \in Tasks : ClearSongCacheDelReply(t)
  \/ \E t \in Tasks : ClearSongCacheDeleteReply(t)
  \/ \E t \in Tasks : GetReply(t) /\ UNCHANGED matchVars
  \/ \E t \in Tasks : GetDelReply(t) /\ UNCHANGED matchVars
  \/ \E t \in Tasks : SetReply(t)
  \/ \E t \in Tasks : DeleteByPrefixKeysReply(t)
  \/ \E t \in Tasks : DeleteByPrefixDelReply(t)
  \/ RedisConnect
  \/ RedisErrorEvent
  \/ \E key \in SongKeys : ForeignWrite(key)

\* the facade; the clock stands still: its entries live for a day
SongSpec == CacheInitial /\ [][SongNext]_vars

\* the facade with the entries of two songs, 1 and 12, and clearSongCache(1)
ClearNext ==
  \/ \E t \in Tasks, id \in Ids \cup {LongerId}, data \in Values, useRedis \in BOOLEAN :
       CacheSongInfo(t, id, data, useRedis)
  \/ \E t \in Tasks, data \in Values, useRedis \in BOOLEAN :
       CacheSongSourceInfo(t, LongerId, "kugou", data, useRedis)
  \/ \E t \in Tasks, sources \in Values, useRedis \in BOOLEAN :
       CacheSourceMatchResult(t, LongerId, sources, useRedis)
  \/ \E t \in Tasks, id \in Ids : ClearSongCache(t, id)
  \/ \E t \in Tasks : ClearSongCacheKeysReply(t)
  \/ \E t \in Tasks : ClearSongCacheDelReply(t)
  \/ \E t \in Tasks : ClearSongCacheDeleteReply(t)
  \/ \E t \in Tasks : SetReply(t)
  \/ RedisConnect

ClearSpec == CacheInitial /\ [][ClearNext]_vars

(***************************************************************************)
(* The match route, MusicService.matchSong and the hooks of the source     *)
(* manager plugin.                                                         *)
(***************************************************************************)
\* the URL the match route is mounted at, API_PREFIX + '/match'
MATCH_URL == <<"/", "v", "1", "/", "a", "p", "i", "/", "m", "a", "t", "c", "h">>
\* the URLs the hooks watch
API_SONG == <<"/", "a", "p", "i", "/", "s", "o", "n", "g">>
API_MATCH == <<"/", "a", "p", "i", "/", "m", "a", "t", "c", "h">>
Monitored(url) == StartsWith(url, API_SONG) \/ StartsWith(url, API_MATCH)

\* the options matchSong passes to set: ttl 3600, no level
MatchOptions ==
  [ttl |-> PRIORITY_TTL("normal"), level |-> DefaultOptions.level,
   priority |-> "normal"]

\* what the resolver race ends in without a result: match() resolves to
\* nothing, match() rejects, or the timer rejects first
Failures == {"null", "throw", "timeout"}

\* the status of the reply: ApiError.timeout is 504, ApiError.api is 500
StatusOf(outcome) ==
  CASE outcome = "data" -> 200
    [] outcome = "timeout" -> 504
    [] OTHER -> 500

\* onRequest hook of the plugin, then the route handler up to matchSong
OnRequest(url, source) ==
  /\ match.pc = "idle"
  /\ nOps < MaxOps
  /\ match' = [pc |-> "handler", url |-> url, source |-> source,
               startTime |-> IF Monitored(url) THEN now ELSE 0,
               requestSource |-> "", status |-> 0,
               before |-> <<sourceStats[source].totalRequests,
                            sourceStats[source].availableCount>>]
  /\ UNCHANGED <<now, regVars, rankVars, edgeVars, cacheVars>>

\* where matchSong stands once the get call in slot t has taken a step
AfterGet(m, tk) ==
  IF tk.pc # "done" THEN [m EXCEPT !.pc = "get"]
  ELSE IF tk.result # "null" THEN [m EXCEPT !.pc = "replied", !.status = 200]
  ELSE [m EXCEPT !.pc = "race"]

\* matchSong up to its await of cacheService.get, and on if the get returns
MatchSong(t) ==
  /\ match.pc = "handler"
  /\ Get(t, "matchSong", "get", MatchKey(<<"1">>, match.source))
  /\ match' = AfterGet(match, task'[t])

\* matchSong resumed by the get
MatchSongGetReply(t) ==
  /\ match.pc = "get"
  /\ task[t].call = "matchSong"
  /\ GetReply(t) \/ GetDelReply(t)
  /\ match' = AfterGet(match, task'[t])

\* the race is won by match() with a result: it is cached and sent
MatchSongResolved(t, data) ==
  /\ match.pc = "race"
  /\ Set(t, "matchSong", MatchKey(<<"1">>, match.source), data, MatchOptions)
  /\ match' = [match EXCEPT !.pc = "replied", !.status = StatusOf("data")]

\* the race ends without a result: the catch block throws an ApiError, which
\* the error handler sends
MatchSongFailed(outcome) ==
  /\ match.pc = "race"
  /\ match' = [match EXCEPT !.pc = "replied", !.status = StatusOf(outcome)]
  /\ UNCHANGED <<now, regVars, rankVars, edgeVars, cacheVars>>

\* onResponse hook of the plugin, after the reply was sent
OnResponse ==
  /\ match.pc = "replied"
  /\ IF Monitored(match.url) /\ match.startTime # 0 /\ match.requestSource # ""
     THEN LET source == match.requestSource
              success == match.status >= 200 /\ match.status < 300
              stats == UpdatedStats(StatsOrNew(sourceStats, source), success,
                                    now - match.startTime, now)
          IN /\ sourceStats' = MapSet(sourceStats, source, stats)
             /\ storage' = SaveStatsToStorage(sourceStats', hasLocalStorage, storage)
             /\ made' = [made EXCEPT ![source] = @ + 1]
             /\ okTimes' = Timed(okTimes, source, success, now - match.startTime)
     ELSE UNCHANGED <<sourceStats, storage, made, okTimes>>
  /\ match' = IdleMatch
  /\ UNCHANGED <<now, hasLocalStorage, req, nRecorded, rankVars, edgeVars, cacheVars>>

MatchNext ==
  \/ \E source \in CacheSources : OnRequest(MATCH_URL, source)
  \/ \E t \in Tasks : MatchSong(t)
  \/ \E t \in Tasks : MatchSongGetReply(t)
  \/ \E t \in Tasks, data \in Values : MatchSongResolved(t, data)
  \/ \E outcome \in Failures : MatchSongFailed(outcome)
  \/ OnResponse
  \/ RedisConnect
  \/ RedisErrorEvent
  \/ Tick

\* the match route over the cache service and the registry
MatchSpec == CacheInitial /\ [][MatchNext]_vars

(***************************************************************************)
(* Claims about the statistics registry.                                   *)
(***************************************************************************)
Total(s) == sourceStats[s].totalRequests
Avail(s) == sourceStats[s].availableCount

C1_Inv ==
  \A s \in DOMAIN sourceStats : Total(s) = made[s] /\ Avail(s) <= Total(s)

C1_Step ==
  \A s \in DOMAIN sourceStats :
    made'[s] >= made[s] =>
      /\ s \in DOMAIN sourceStats'
      /\ sourceStats'[s].totalRequests >= Total(s)
      /\ (made'[s] = made[s] + 1 => sourceStats'[s].totalRequests = Total(s) + 1)

\* C1: for every source, totalRequests equals the number of recordSourceResult
\* calls made on it since its stats were initialised, loaded or reset, it never
\* decreases while no reset covers the source, and availableCount <=
\* totalRequests in every reachable state.
C1_CountersMatchCalls == [] C1_Inv /\ [][C1_Step]_vars

\* three calls on one source, one of them a success
C1_Witness ==
  \E s \in RecordSources :
    /\ s \in DOMAIN sourceStats
    /\ made[s] = 3 /\ Total(s) = 3 /\ Avail(s) = 1

BothDone(c1, c2) ==
  /\ c1 # c2
  /\ req[c1].pc = "done" /\ req[c2].pc = "done"
  /\ req[c1].source = req[c2].source
  /\ req[c1].before = req[c2].before
  /\ ~req[c1].reset /\ ~req[c2].reset

Successes(c1, c2) ==
  (IF req[c1].success THEN 1 ELSE 0) + (IF req[c2].success THEN 1 ELSE 0)

\* C6: when two record requests for the same source were in flight together
\* (both arrived on the same stats) and both handlers have run, with no reset
\* in between, totalRequests is 2 higher than before and availableCount is
\* higher by the number of successes among the two.
C6_NoLostUpdate ==
  \A c1 \in Callers, c2 \in Callers :
    BothDone(c1, c2) =>
      /\ req[c1].source \in DOMAIN sourceStats
      /\ Total(req[c1].source) = req[c1].before.totalRequests + 2
      /\ Avail(req[c1].source) = req[c1].before.availableCount + Successes(c1, c2)

\* two requests in flight together have both been handled, one a success
C6_Witness ==
  \E c1 \in Callers, c2 \in Callers :
    BothDone(c1, c2) /\ Successes(c1, c2) = 1

IsReset(m, s) == s \in DOMAIN m => m[s] = ZeroStats(SeedQuality(s))

\* C8: after resetSourceStats(source) the named source, and after
\* resetSourceStats() every source the registry holds, has zeroed counters, no
\* lastSuccess/lastFailure and its seed qualityScore; a single-source reset
\* leaves every other source's stats unchanged.
C8_ResetRestoresSeeds ==
  [][/\ ResetAllSourceStats =>
          \A s \in DOMAIN sourceStats' : IsReset(sourceStats', s)
     /\ \A source \in RecordSources :
          ResetSourceStats(source) =>
            /\ IsReset(sourceStats', source)
            /\ \A s \in DOMAIN sourceStats :
                 s # source => s \in DOMAIN sourceStats' /\ sourceStats'[s] = sourceStats[s]
    ]_vars

\* the stats after a run of recordSourceResult calls, given as
\* <<success, responseTime>> pairs
RECURSIVE RecordAll(_, _)
RecordAll(stats, outcomes) ==
  IF outcomes = <<>> THEN stats
  ELSE RecordAll(UpdatedStats(stats, outcomes[1][1], outcomes[1][2], 1), Tail(outcomes))

\* the arithmetic mean of the response times of the successful calls
MeanOf(times) == IF times.n = 0 THEN Zero ELSE Frac(times.sum, times.n)

C16_Step ==
  \A c \in Callers :
    RecordSourceResult(c) /\ ~req[c].success /\ req[c].source \in DOMAIN sourceStats =>
      sourceStats'[req[c].source].avgResponseTime
        = sourceStats[req[c].source].avgResponseTime

\* C16: after any sequence of recordSourceResult calls on a source starting
\* from zeroed stats, avgResponseTime is the arithmetic mean of the
\* responseTime arguments of the successful calls only (0 when there was none);
\* a failed call leaves avgResponseTime unchanged; successes 100, 200, 300
\* give 200, also with failures in between.
C16_MeanOfSuccesses ==
  /\ [](\A s \in DOMAIN sourceStats :
          okTimes[s].n >= 0 =>
            /\ sourceStats[s].availableCount = okTimes[s].n
            /\ sourceStats[s].avgResponseTime = MeanOf(okTimes[s]))
  /\ [](/\ RecordAll(ZeroStats(NEUTRAL_QUALITY),
                     <<<<TRUE, 100>>, <<TRUE, 200>>, <<TRUE, 300>>>>).avgResponseTime
             = <<200, 1>>
        /\ RecordAll(ZeroStats(NEUTRAL_QUALITY),
                     <<<<FALSE, 50>>, <<TRUE, 100>>, <<FALSE, 0>>, <<TRUE, 200>>,
                       <<FALSE, 900>>, <<TRUE, 300>>>>).avgResponseTime
             = <<200, 1>>)
  /\ [][C16_Step]_vars

\* three calls on a source that started from zero: successes of 100 and 800 ms
\* and a failure, the mean being 450
C16_Witness ==
  \E s \in RecordSources :
    /\ s \in DOMAIN sourceStats
    /\ okTimes[s] = [n |-> 2, sum |-> 900]
    /\ sourceStats[s].totalRequests = 3
    /\ sourceStats[s].avgResponseTime = <<450, 1>>

C22_Step ==
  Restart =>
    /\ sourceStats' = sourceStats
    /\ storage = <<>> /\ nRecorded = 0 => sourceStats' = Seeds

\* C22: stats survive a restart: a registry constructed after any sequence of
\* recordResult/resetStats calls on a previous registry holds, for every
\* source, the stats the previous registry held after its last mutation; with
\* no saved snapshot and no call made it holds exactly the seeded table.
C22_StatsSurviveRestart == [][C22_Step]_vars

\* without localStorage a call was recorded, and the registry constructed
\* after it holds the seeded table
C22_Witness ==
  /\ ~hasLocalStorage
  /\ nRecorded > 0
  /\ \A c \in Callers : req[c].pc = "idle"
  /\ sourceStats = Seeds
  /\ \A s \in AllSources : made[s] = 0

(***************************************************************************)
(* Claims about the ranking engine.                                        *)
(***************************************************************************)
HeadOrNull(ranked) == IF ranked = <<>> THEN "null" ELSE ranked[1]

\* C9 as stated: rankSources([]) is empty and getBestSource([]) is null; for a
\* non-empty input getBestSource is the head of rankSources, or null.
C9_EmptyInputGivesEmpty ==
  /\ rankOut.call = "rankSources" /\ rankOut.input = <<>> => rankOut.result = <<>>
  /\ rankOut.call = "getBestSource" =>
       rankOut.result = IF rankOut.input = <<>> THEN "null"
                        ELSE HeadOrNull(RankSources(sourceStats, rankOut.input))

\* C9, amended: rankSources([]) is the ranking of config.DEFAULT_SOURCES and
\* getBestSource([]) is its head; for every input getBestSource is the head of
\* rankSources on the same input, and null when every candidate is filtered out.
C9_EmptyInputRanksDefaults ==
  /\ rankOut.call = "rankSources" /\ rankOut.input = <<>> =>
       /\ rankOut.result = RankSources(sourceStats, DEFAULT_SOURCES)
       /\ Range(rankOut.result) = {s \in Range(DEFAULT_SOURCES) : RankKeeps(sourceStats, s)}
  /\ rankOut.call = "getBestSource" =>
       rankOut.result =
         HeadOrNull(RankSources(sourceStats,
                      IF rankOut.input = <<>> THEN DEFAULT_SOURCES ELSE rankOut.input))

\* getBestSource([]) has returned a source
C9_Witness ==
  /\ rankOut.call = "getBestSource"
  /\ rankOut.input = <<>>
  /\ rankOut.result # "null"

\* the candidates of a ranking call: config.DEFAULT_SOURCES for an empty input
Candidates == IF rankOut.input = <<>> THEN DEFAULT_SOURCES ELSE rankOut.input

\* totalRequests > 5 and successRate < 0.2
Excluded(s) ==
  /\ s \in DOMAIN sourceStats
  /\ sourceStats[s].totalRequests > 5
  /\ 5 * sourceStats[s].successRate[1] < sourceStats[s].successRate[2]

\* C12: rankSources excludes exactly the candidates that have totalRequests > 5
\* and successRate < 0.2: none of them is in the output, and every other
\* candidate (totalRequests <= 5, successRate >= 0.2, or no stats entry) is in
\* the output as often as it is in the input.
C12_FilterExcludesExactly ==
  rankOut.call = "rankSources" =>
    /\ Range(rankOut.result) = {s \in Range(Candidates) : ~Excluded(s)}
    /\ Len(rankOut.result) =
         Cardinality({i \in 1..Len(Candidates) : ~Excluded(Candidates[i])})

\* a ranking that dropped one candidate and kept another whose success rate is
\* below 0.2 on five requests or fewer
C12_Witness ==
  /\ rankOut.call = "rankSources"
  /\ \E s \in Range(Candidates) : Excluded(s)
  /\ \E s \in Range(rankOut.result) :
       /\ s \in DOMAIN sourceStats
       /\ sourceStats[s].totalRequests <= 5
       /\ 5 * sourceStats[s].successRate[1] < sourceStats[s].successRate[2]

FracAdd(x, y) == Frac(x[1] * y[2] + y[1] * x[2], x[2] * y[2])
FracMul(x, y) == Frac(x[1] * y[1], x[2] * y[2])

\* max(0, (1000 - avgResponseTime) / 1000)
SpeedTerm(avg) ==
  IF FracLe(<<1000, 1>>, avg) THEN Zero
  ELSE Frac(1000 * avg[2] - avg[1], 1000 * avg[2])

\* successRate*0.4 + (qualityScore/100)*0.4 + speed term*0.2
CompositeScore(stats) ==
  FracAdd(FracAdd(FracMul(stats.successRate, <<2, 5>>),
                  FracMul(<<stats.qualityScore, 100>>, <<2, 5>>)),
          FracMul(SpeedTerm(stats.avgResponseTime), <<1, 5>>))

FracEq(x, y) == x[1] * y[2] = y[1] * x[2]

\* a ranks before b: the comparator of rankSources is negative on (a, b)
RanksBefore(m, a, b) == RankCompare(m, a, b) < 0

\* the candidates rankSources compared in the last call
Compared == Range(RankInput(rankOut.input))

\* C26: the relation rankSources sorts by is an ordering of any mix of
\* candidates with and without a stats entry: it is transitive, and no three
\* candidates a, b, c have a before b, b before c and c before a.
C26_RanksBeforeIsAnOrdering ==
  rankOut.call = "rankSources" =>
    \A a \in Compared, b \in Compared, c \in Compared :
      /\ RanksBefore(sourceStats, a, b) /\ RanksBefore(sourceStats, b, c)
           => RanksBefore(sourceStats, a, c)
      /\ ~(/\ RanksBefore(sourceStats, a, b)
           /\ RanksBefore(sourceStats, b, c)
           /\ RanksBefore(sourceStats, c, a))

\* rankSources returned a candidate behind one it ranks before
C26_Witness ==
  /\ rankOut.call = "rankSources"
  /\ \E i \in 1..Len(rankOut.result), j \in 1..Len(rankOut.result) :
       /\ i < j
       /\ RanksBefore(sourceStats, rankOut.result[j], rankOut.result[i])
       /\ rankOut.result[i] \notin DOMAIN sourceStats

\* no three candidates rank before one another in a circle
C26_NoCycle ==
  rankOut.call = "rankSources" =>
    \A a \in Compared, b \in Compared, c \in Compared :
      ~(/\ RanksBefore(sourceStats, a, b)
        /\ RanksBefore(sourceStats, b, c)
        /\ RanksBefore(sourceStats, c, a))

\* C13: for every candidate list whose members all have a stats entry,
\* rankSources returns the unfiltered candidates in non-increasing order of
\* score = successRate*0.4 + (qualityScore/100)*0.4
\*         + max(0, (1000 - avgResponseTime)/1000)*0.2,
\* the speed term being 0 from an avgResponseTime of 1000 on.
C13_SortedByScore ==
  /\ \A s \in DOMAIN sourceStats :
       FracEq(Score(sourceStats[s]), CompositeScore(sourceStats[s]))
  /\ rankOut.call = "rankSources" /\ Range(Candidates) \subseteq DOMAIN sourceStats =>
       /\ Range(rankOut.result) = {s \in Range(Candidates) : ~Excluded(s)}
       /\ \A i \in 1..Len(rankOut.result), j \in 1..Len(rankOut.result) :
            i < j => FracLe(CompositeScore(sourceStats[rankOut.result[j]]),
                            CompositeScore(sourceStats[rankOut.result[i]]))

\* three candidates with stats were put in another order, the first of them
\* with an avgResponseTime above 1000 and a strictly higher score than the last
C13_Witness ==
  /\ rankOut.call = "rankSources"
  /\ Range(Candidates) \subseteq DOMAIN sourceStats
  /\ Len(rankOut.result) = 3
  /\ rankOut.result # rankOut.input
  /\ FracLt(<<1000, 1>>, sourceStats[rankOut.result[1]].avgResponseTime)
  /\ FracLt(CompositeScore(sourceStats[rankOut.result[3]]),
            CompositeScore(sourceStats[rankOut.result[1]]))

\* what rankSources returns on the input of the last call
Ranked == RankSources(sourceStats, rankOut.input)

\* qualityScore > 85 and avgResponseTime > 300
HighAndSlow(s) ==
  /\ s \in DOMAIN sourceStats
  /\ sourceStats[s].qualityScore > 85
  /\ sourceStats[s].avgResponseTime[1] > 300 * sourceStats[s].avgResponseTime[2]

NotHighAndSlow(s) == ~HighAndSlow(s)

\* C14: adjustSourcesForNetwork(candidates, '3g' or '2g') is
\* rankSources(candidates) without exactly the sources that have
\* qualityScore > 85 and avgResponseTime > 300, the others in their ranked
\* order; for A = ytdlp (95, 800 ms) and B = joox (70) the result is [B].
C14_SlowNetworkDropsHighAndSlow ==
  rankOut.call = "adjustSourcesForNetwork" /\ rankOut.network \in {"3g", "2g"} =>
    /\ rankOut.result = SelectSeq(Ranked, NotHighAndSlow)
    /\ rankOut.input = <<"ytdlp", "joox">>
         /\ sourceStats["ytdlp"].avgResponseTime = <<800, 1>>
         => rankOut.result = <<"joox">>

\* on 3g, of qq (85, 800 ms), ytdlp (95, 500 ms), migu and kugou, ytdlp alone
\* was removed
C14_Witness ==
  /\ rankOut.call = "adjustSourcesForNetwork"
  /\ rankOut.network = "3g"
  /\ rankOut.input = <<"qq", "ytdlp", "migu", "kugou">>
  /\ sourceStats["ytdlp"].avgResponseTime = <<500, 1>>
  /\ sourceStats["qq"].avgResponseTime = <<800, 1>>
  /\ Len(rankOut.result) = 3
  /\ "ytdlp" \notin Range(rankOut.result)

\* qualityScore > 90 and avgResponseTime > 500
Penalized(s) ==
  /\ s \in DOMAIN sourceStats
  /\ sourceStats[s].qualityScore > 90
  /\ sourceStats[s].avgResponseTime[1] > 500 * sourceStats[s].avgResponseTime[2]

\* the quality the 4g adjustment gives a source: qualityScore * 0.8 when it is
\* penalized, its qualityScore otherwise, 70 without a stats entry
AdjustedQuality(s) ==
  IF Penalized(s) THEN Frac(sourceStats[s].qualityScore * 4, 5)
  ELSE IF s \in DOMAIN sourceStats THEN <<sourceStats[s].qualityScore, 1>>
  ELSE <<70, 1>>

\* the composite ranking score recomputed with the adjusted quality
AdjustedComposite(s) ==
  FracAdd(FracAdd(FracMul(sourceStats[s].successRate, <<2, 5>>),
                  FracMul(FracMul(AdjustedQuality(s), <<1, 100>>), <<2, 5>>)),
          FracMul(SpeedTerm(sourceStats[s].avgResponseTime), <<1, 5>>))

\* the result holds every source as often as the ranking does
SameSources(result, ranked) ==
  /\ Len(result) = Len(ranked)
  /\ \A s \in Range(ranked) \cup Range(result) :
       Cardinality({i \in 1..Len(result) : result[i] = s})
         = Cardinality({i \in 1..Len(ranked) : ranked[i] = s})

\* C15, as stated: on 4g nothing is removed and the result is in
\* non-increasing order of the composite ranking score recomputed with the
\* adjusted quality
C15_FourGSortsByAdjustedComposite ==
  /\ rankOut.call = "adjustSourcesForNetwork"
  /\ rankOut.network = "4g"
  /\ Range(Candidates) \subseteq DOMAIN sourceStats
  => /\ SameSources(rankOut.result, Ranked)
     /\ \A i \in 1..Len(rankOut.result), j \in 1..Len(rankOut.result) :
          i < j => FracLe(AdjustedComposite(rankOut.result[j]),
                          AdjustedComposite(rankOut.result[i]))

\* C15, amended: on 4g nothing is removed and the result is in non-increasing
\* order of the adjusted quality alone (success rate and response time do not
\* enter the order), sources of equal adjusted quality keeping their ranked
\* order
C15_FourGSortsByAdjustedQuality ==
  rankOut.call = "adjustSourcesForNetwork" /\ rankOut.network = "4g" =>
    /\ SameSources(rankOut.result, Ranked)
    /\ \A i \in 1..Len(rankOut.result), j \in 1..Len(rankOut.result) :
         i < j =>
           /\ FracLe(AdjustedQuality(rankOut.result[j]),
                     AdjustedQuality(rankOut.result[i]))
           /\ FracEq(AdjustedQuality(rankOut.result[j]),
                     AdjustedQuality(rankOut.result[i]))
                => IndexOf(Ranked, rankOut.result[i])
                     < IndexOf(Ranked, rankOut.result[j])

\* on 4g, ytdlp (95, 800 ms) was penalized to 76 and came last of four, after
\* kugou (80)
C15_Witness ==
  /\ rankOut.call = "adjustSourcesForNetwork"
  /\ rankOut.network = "4g"
  /\ Len(rankOut.result) = 4
  /\ Penalized("ytdlp")
  /\ rankOut.result[4] = "ytdlp"
  /\ rankOut.result[3] = "kugou"
  /\ rankOut.result # Ranked

(***************************************************************************)
(* Claims about the cache service.                                         *)
(***************************************************************************)
\* a get or has call that has returned
Read(t) == task[t].pc = "done" /\ task[t].op \in {"get", "has"}
\* what a get or has returned is a value
IsValue(result) == result \notin {"null", "false"}
GotValue(t) == Read(t) /\ IsValue(task[t].result)
GotAbsent(t) == Read(t) /\ ~IsValue(task[t].result)

\* C3, as stated: get(k) called later than expiresAt = (time of the most recent
\* set of k) + (the TTL resolved for that set) never returns a value
C3_NeverAfterExpiresAt == \A t \in Tasks : GotValue(t) => ~task[t].late0

\* C3, amended: a value returned from the local tier comes from an entry whose
\* age, counted from the latest of its set, its promotion from the shared tier
\* and the last get or has that returned it, is at most its TTL; and a get
\* called after expiresAt, no get or has having returned k since the set,
\* returns a value only if the shared tier supplies one
C3_NeverAfterRefreshedTtl ==
  \A t \in Tasks :
    GotValue(t) =>
      /\ task[t].from = "memory" => task[t].age <= task[t].ttl
      /\ task[t].late0 /\ task[t].fresh0 => task[t].from = "redis"

\* set(k, v, {ttl: 1}), more than one second, get(k): absent
C3_Witness ==
  \E t \in Tasks :
    /\ GotAbsent(t)
    /\ task[t].late0
    /\ task[t].fresh0
    /\ hist[task[t].key].ttl = 1

\* the step is the first step of a delete call in slot t
DeleteBegins(t) == \E key \in CacheKeys : Delete(t, "delete", key)

\* C4, as stated: once delete(k) has completed, every get(k) returns absent
\* until the next set(k)
C4_DeleteRemovesFromBothTiers ==
  \A t \in Tasks : GotValue(t) => "delete" \notin task[t].rem0

C4_LocalStep ==
  \A t \in Tasks :
    DeleteBegins(t) =>
      /\ LruIndex(memoryCache', task'[t].key, 1) = 0
      /\ LruIndex(memoryCache, task'[t].key, 1) = 0 /\ task'[t].key \notin DOMAIN redis
           => memoryCache' = memoryCache /\ redis' = redis

\* C4, amended: delete(k) always removes k from the local tier, and a delete
\* of a key that neither tier holds changes neither tier; when a delete(k)
\* completes with k in neither tier and no get(k) in flight, every get(k)
\* called from then on returns absent until the next set(k)
C4_DeleteRemovesWhatItReaches ==
  /\ [](\A t \in Tasks : GotValue(t) => "delete" \notin task[t].gone0)
  /\ [][C4_LocalStep]_vars

\* set(k) on both tiers, delete(k) reaching both, get(k): absent
C4_Witness ==
  \E t \in Tasks :
    /\ GotAbsent(t)
    /\ "delete" \in task[t].gone0
    /\ hist[task[t].key].setAt > 0
    /\ redisAvailable

\* the step is the first step, or any step, of a deleteByPrefix call in slot t
PrefixBegins(t) ==
  \E prefix \in Prefixes :
    DeleteByPrefix(t, "deleteByPrefix", prefix, Targets("deleteByPrefix", prefix))
PrefixStep(t) ==
  PrefixBegins(t) \/ DeleteByPrefixKeysReply(t) \/ DeleteByPrefixDelReply(t)

LocalEntry(c, k) ==
  IF LruIndex(c, k, 1) = 0 THEN <<>> ELSE <<c[LruIndex(c, k, 1)]>>
SharedEntry(r, k) == IF k \in DOMAIN r THEN <<r[k]>> ELSE <<>>

\* C5, as stated: the keys that do not start with the prefix stay as they are
C5_FrameStep ==
  \A t \in Tasks :
    PrefixStep(t) =>
      \A k \in Keys :
        ~StartsWith(k, task'[t].key) =>
          /\ LocalEntry(memoryCache', k) = LocalEntry(memoryCache, k)
          /\ SharedEntry(redis', k) = SharedEntry(redis, k)

C5_LocalStep ==
  \A t \in Tasks :
    /\ PrefixBegins(t) =>
         \A k \in LruKeys(memoryCache', now) : ~StartsWith(k, task'[t].key)
    /\ PrefixStep(t) =>
         \A k \in Keys :
           /\ ~StartsWith(k, task'[t].key) =>
                LocalEntry(memoryCache', k) = LocalEntry(memoryCache, k)
           /\ ~GlobMatch(task'[t].key \o <<"*">>, k) =>
                SharedEntry(redis', k) = SharedEntry(redis, k)

ReadReturns(t) ==
  /\ \/ \E op \in {"get", "has"}, key \in CacheKeys : Get(t, op, op, key)
     \/ GetReply(t)
     \/ GetDelReply(t)
  /\ task'[t].pc = "done"

C7_Step ==
  /\ \A t \in Tasks :
       ReadReturns(t) =>
         IF IsValue(task'[t].result)
         THEN cacheStats' = [cacheStats EXCEPT !.hits = @ + 1]
         ELSE cacheStats' = [cacheStats EXCEPT !.misses = @ + 1]
  /\ (\A t \in Tasks : ~ReadReturns(t)) =>
       /\ cacheStats'.hits <= cacheStats.hits
       /\ cacheStats'.misses <= cacheStats.misses

\* C7: every get, also one made through has, increments hits by one and leaves
\* misses when it returns a value, increments misses by one and leaves hits
\* when it returns absent, and changes the counters at no other moment; with
\* one hit and one miss the hit rate is "50.00%"
C7_OneCounterPerGet ==
  /\ [](cacheStats.hits = 1 /\ cacheStats.misses = 1 => HitRate(cacheStats) = <<50, 0>>)
  /\ [][C7_Step]_vars

\* a get that returned absent and a get that returned a value: one miss, one hit
C7_Witness ==
  /\ cacheStats.hits = 1
  /\ cacheStats.misses = 1
  /\ HitRate(cacheStats) = <<50, 0>>
  /\ \E t \in Tasks : GotValue(t) /\ task[t].op = "get"
  /\ nOps = 3

\* the step is the first step of the get or has call in slot t
ReadBegins(t) == \E op \in {"get", "has"}, key \in CacheKeys : Get(t, op, op, key)

\* the local tier holds k, unexpired, with value v
LocalHolds(c, k, v) ==
  /\ LruLive(c, k, now)
  /\ c[LruIndex(c, k, 1)].value = v

C17_Step ==
  \A t \in Tasks :
    /\ GetReply(t) /\ task[t].reply.kind = "str" /\ JsonParses(task[t].reply.raw) =>
         /\ task'[t].pc = "done"
         /\ task'[t].result = Result(task[t].op, JsonParse(task[t].reply.raw))
         /\ LocalHolds(memoryCache', task[t].key, JsonParse(task[t].reply.raw))
    /\ ReadBegins(t) /\ LruLive(memoryCache, task'[t].key, now) =>
         /\ task'[t].pc = "done"
         /\ task'[t].from = "memory"
         /\ \E v \in Values \cup {OldValue} :
              /\ LocalHolds(memoryCache, task'[t].key, v)
              /\ task'[t].result = Result(task'[t].op, v)
              /\ LocalHolds(memoryCache', task'[t].key, v)

\* C17: when get(k) misses in the local tier and the shared tier answers with
\* a value for k that deserializes, get returns that value and the local tier
\* holds k afterwards; a get(k) that finds k in the local tier returns the
\* value from there without querying the shared tier, whether the shared tier
\* is reachable or not.
C17_SharedHitIsPromoted == [][C17_Step]_vars

\* a get was answered by the shared tier and the next one, the shared tier
\* having become unreachable, by the local tier, with the same value and
\* nothing set by this process
C17_Witness ==
  /\ ~redisAvailable
  /\ nOps = 2
  /\ task[1].pc = "done" /\ task[1].op = "get" /\ task[1].from = "memory"
  /\ IsValue(task[1].result)
  /\ hist[task[1].key].setAt = 0
  /\ cacheStats = [hits |-> 2, misses |-> 0]

\* the shared tier has answered the get in slot t with a string that does not
\* deserialize
CorruptReply(t) ==
  /\ GetReply(t)
  /\ task[t].reply.kind = "str"
  /\ ~JsonParses(task[t].reply.raw)

\* the delete of k on the shared tier was issued: it took effect or was rejected
DelIssued(t) ==
  /\ task'[t].pc = "get.del"
  /\ \/ redis' = RedisDel(redis, {task[t].key}) /\ task'[t].reply = RedisDone
     \/ redis' = redis /\ task'[t].reply = RedisError

\* the get in slot t returns absent and counts one miss
ReturnsMiss(t) ==
  /\ task'[t].pc = "done"
  /\ task'[t].result = Result(task[t].op, "null")
  /\ cacheStats' = [cacheStats EXCEPT !.misses = @ + 1]

\* C18, as stated: whenever the value the shared tier holds for k cannot be
\* deserialized, get(k) issues a delete of k on the shared tier
C18_Step ==
  \A t \in Tasks :
    CorruptReply(t) => DelIssued(t) /\ memoryCache' = memoryCache

C18_AmendedStep ==
  \A t \in Tasks :
    /\ CorruptReply(t) /\ task[t].reply.raw # EmptyString =>
         DelIssued(t) /\ memoryCache' = memoryCache /\ cacheStats' = cacheStats
    /\ CorruptReply(t) /\ task[t].reply.raw = EmptyString =>
         ReturnsMiss(t) /\ memoryCache' = memoryCache /\ redis' = redis
    /\ GetDelReply(t) =>
         ReturnsMiss(t) /\ memoryCache' = memoryCache /\ redis' = redis

SetBegins(t, key, value, options) == Set(t, "set", key, value, options)

\* the step takes up, in slot t, a command the shared tier rejected
TakesUpRejection(t) ==
  /\ task[t].reply = RedisError
  /\ \/ SetReply(t) \/ GetReply(t) \/ GetDelReply(t) \/ DeleteReply(t)
     \/ DeleteByPrefixKeysReply(t) \/ DeleteByPrefixDelReply(t)

C19_Step ==
  \A t \in Tasks :
    /\ \A key \in CacheKeys, value \in AllValues,
          options \in WriteOptions :
         SetBegins(t, key, value, options) =>
           /\ LocalHolds(memoryCache', key, value)
           /\ task'[t].pc \in {"done", "set.redis"}
           /\ task'[t].pc = "done" => task'[t].result = "void"
           /\ redis' # redis \/ task'[t].pc = "set.redis" =>
                options.level = "redis" /\ redisAvailable
           /\ value = Unserializable => redis' = redis /\ task'[t].pc = "done"
    /\ TakesUpRejection(t) =>
         /\ task'[t].pc = "done"
         /\ task'[t].result = IF task[t].op = "get" THEN "null" ELSE "void"
         /\ redis' = redis
         /\ memoryCache' = memoryCache

\* C19: set(k, v, opts) always stores k in the local tier and always completes
\* normally, whether the shared tier is reachable or not and whether the
\* shared write or the serialization of v fails or not; the shared tier is
\* written only if opts.level is REDIS and the reachable flag is true at that
\* moment; get, delete and deleteByPrefix complete normally as well when the
\* shared tier rejects their command.
C19_SetNeverFails == [][C19_Step]_vars

\* one set whose shared write was rejected, the key being held locally and not
\* by the shared tier, and one completed set of a value that does not serialize
C19_Witness ==
  \E t, u \in Tasks :
    /\ task[t].pc = "set.redis" /\ task[t].reply = RedisError
    /\ LruLive(memoryCache, task[t].key, now)
    /\ task[t].key \notin DOMAIN redis
    /\ task[u].pc = "done" /\ task[u].op = "set"
    /\ LocalHolds(memoryCache, task[u].key, Unserializable)
    /\ redisAvailable

\* the TTL of the claim: the explicit ttl whenever one is supplied, and
\* otherwise the default of the priority
StatedTtl(options) ==
  IF options.ttl # NoTtl THEN options.ttl
  ELSE CASE options.priority = "low" -> 900
         [] options.priority = "high" -> 21600
         [] OTHER -> 3600

\* the step stores key with the TTL ttl in the local tier and, when it writes
\* the shared tier, there
Applies(key, ttl) ==
  /\ LruIndex(memoryCache', key, 1) # 0
  /\ memoryCache'[LruIndex(memoryCache', key, 1)].ttl = ttl
  /\ redis' # redis => redis'[key].expireAt = now + ttl

C20_Step ==
  \A t \in Tasks, key \in CacheKeys, value \in AllValues,
     options \in WriteOptions :
    SetBegins(t, key, value, options) => Applies(key, StatedTtl(options))

\* C20: the TTL that set applies is the explicit ttl whenever one is supplied
\* in the options, whatever priority is given; only when no ttl is supplied is
\* it the default of the priority: LOW 900 s, NORMAL 3600 s, HIGH 21600 s, and
\* NORMAL's when no priority is given either.
C20_ExplicitTtlOverrides == [][C20_Step]_vars

\* set(k, v, {ttl: 0, priority: HIGH}) has stored k for 21600 seconds
C20_Witness ==
  \E i \in 1..Len(memoryCache) : memoryCache[i].ttl = 21600

\* set(key, v) was the last call made, nothing else was in flight when it was
\* made, and it has completed
JustSet(key, v) ==
  /\ hist[key].setOp = nOps
  /\ hist[key].alone
  /\ hist[key].value = v
  /\ \A u \in Tasks : Free(u)

C23_Step ==
  \A t \in Tasks, v \in AllValues :
    JustSet(WarmKey, v) /\ Get(t, "get", "get", WarmKey) =>
      /\ task'[t].pc = "done"
      /\ task'[t].result = v
      /\ cacheStats' = [cacheStats EXCEPT !.hits = @ + 1]

\* C23: for every key k, value v and options, set(k, v, options) followed
\* immediately by get(k), no other call being in flight, returns v and counts a
\* hit, in local-only mode as well as with the shared tier reachable.
C23_SetThenGet == [][C23_Step]_vars

\* with the shared tier reachable, a value that does not serialize was set
\* and the get made right after it returned it from the local tier
C23_Witness ==
  \E t \in Tasks :
    /\ task[t].pc = "done" /\ task[t].op = "get" /\ task[t].from = "memory"
    /\ task[t].result = Unserializable
    /\ hist[WarmKey].setOp = nOps - 1
    /\ hist[WarmKey].alone
    /\ redisAvailable
    /\ cacheStats.hits = 1

\* the local entry of k, or none
LocalValue(c, k) ==
  IF LruLive(c, k, now) THEN c[LruIndex(c, k, 1)].value ELSE "null"

C28_Step ==
  \A t \in Tasks :
    GetReply(t) /\ task[t].newer # "none" =>
      LocalValue(memoryCache', task[t].key) = LocalValue(memoryCache, task[t].key)

C27_Step ==
  /\ cacheStats' # cacheStats => ResetStats \/ \E t \in Tasks : ReadReturns(t)
  /\ ~ResetStats =>
       /\ cacheStats'.hits >= cacheStats.hits
       /\ cacheStats'.misses >= cacheStats.misses

\* C27: the cache counters hits and misses are reset only on demand, by
\* resetStats(): between two resetStats calls neither counter ever decreases,
\* and no operation or timer other than get/has (which increment them) changes
\* them.
C27_ResetOnlyOnDemand == [][C27_Step]_vars

\* a get was counted, an hour has passed, and the counters are at zero without
\* resetStats having been called (one call was made in all)
C27_Witness ==
  /\ now = 1 + STATS_INTERVAL
  /\ nOps = 1
  /\ task[1].pc = "done" /\ task[1].op = "get"
  /\ cacheStats = [hits |-> 0, misses |-> 0]

\* what get(k) returns on tiers mem and r: the live local value, else the
\* parsed live value of the shared tier when it is in use, else null
Retrieved(mem, r, k) ==
  IF LruLive(mem, k, now) THEN mem[LruIndex(mem, k, 1)].value
  ELSE IF redisAvailable /\ redisClient /\ RedisLive(r, k, now)
          /\ Truthy(r[k].raw) /\ JsonParses(r[k].raw)
  THEN JsonParse(r[k].raw)
  ELSE "null"

\* a step of clearSongCache in slot t
ClearSongStep(t) ==
  \/ \E id \in Ids : ClearSongCache(t, id)
  \/ ClearSongCacheKeysReply(t)
  \/ ClearSongCacheDelReply(t)
  \/ ClearSongCacheDeleteReply(t)

C29_Step ==
  \A t \in Tasks :
    ClearSongStep(t) =>
      \A k \in LongerKeys :
        Retrieved(memoryCache, redis, k) # "null" =>
          Retrieved(memoryCache', redis', k) = Retrieved(memoryCache, redis, k)

\* C29: clearSongCache(id) removes entries of that song only: the entries
\* song:{id'}, song:{id'}:{source} and source:{id'} of another song id' that were
\* retrievable before the call are retrievable with the same values after it,
\* also when id is a leading substring of id' (id = 1, id' = 12).
C29_ClearSongCacheKeepsOthers == [][C29_Step]_vars

\* clearSongCache(1) has completed, and an entry cached for song 12 is gone
C29_Witness ==
  \E t \in Tasks, k \in LongerKeys :
    /\ task[t].call = "clearSongCache"
    /\ task[t].pc = "done"
    /\ hist[k].setOp > 0
    /\ Retrieved(memoryCache, redis, k) = "null"

\* the match results of the other song stay: delete(source:{id}) is exact
C29_SourceKeyStep ==
  \A t \in Tasks :
    ClearSongStep(t) =>
      Retrieved(memoryCache', redis', GetSourceKey(LongerId))
        = Retrieved(memoryCache, redis, GetSourceKey(LongerId))

C29_SourceKeyKept == [][C29_SourceKeyStep]_vars

(***************************************************************************)
(* Claims about the middlewares.                                           *)
(***************************************************************************)
\* the keys a request carries: the x-api-key header, the Bearer token and,
\* outside production, the api_key parameter
Carried(request) ==
  ({request.xApiKey, BearerToken(request.authorization)}
     \cup (IF config.NODE_ENV # "production" THEN {request.queryApiKey} ELSE {}))
    \ {""}

\* the keys contained in the configured API_KEYS
Listed == Range(config.API_KEYS)

\* the API-key middleware answered its last request as the contract says
AnsweredByContract ==
  IF ~config.ENABLE_API_AUTH \/ authOut.request.path \in API_AUTH_WHITELIST
  THEN authOut.status = 0
  ELSE /\ authOut.status = 0 => Carried(authOut.request) \cap Listed # {}
       /\ authOut.status # 0 => authOut.status = 401
       /\ Listed = {} => authOut.status = 401

\* C24: with API auth enabled the API-key middleware lets a request to a
\* non-whitelisted path through only if it carries a key contained in API_KEYS;
\* a request with no key, a non-Bearer authorization header, a key not in the
\* list, or any key when API_KEYS is empty is answered 401; with API auth
\* disabled, or on a whitelisted path, the request passes and no reply is sent.
C24_OnlyListedKeysPass ==
  authOut.mw = "apiKeyAuth" => AnsweredByContract

\* auth is enabled, API_KEYS is empty, and a request with a key has passed
C24_Witness ==
  /\ authOut.mw = "apiKeyAuth"
  /\ config.ENABLE_API_AUTH
  /\ Len(config.API_KEYS) = 0
  /\ authOut.request.path \notin API_AUTH_WHITELIST
  /\ authOut.request.xApiKey = "bad"
  /\ authOut.status = 0

\* with at least one key configured the middleware answers by the contract
C24_WithKeysConfigured ==
  authOut.mw = "apiKeyAuth" /\ Len(ValidApiKeys(config.API_KEYS)) > 0
    => AnsweredByContract

\* the configured whitelist contains '*'
HasStar == StarEntry \in Range(config.IP_WHITELIST)

\* the address of the request is in the configured whitelist: it is one of
\* its addresses, or matches one of its patterns or ranges
InWhitelist(request) == IsAllowed(config.IP_WHITELIST, ClientIp(request))

\* the IP whitelist middleware answered its last request as the contract says
AnsweredByWhitelist ==
  IF ~config.ENABLE_IP_WHITELIST THEN authOut.status = 0
  ELSE /\ authOut.status = 0 <=> (InWhitelist(authOut.request) \/ HasStar)
       /\ authOut.status # 0 => authOut.status = 403

\* C25: with the IP whitelist enabled the middleware lets a request through if
\* and only if its IP is in the configured whitelist or the whitelist contains
\* '*'; every other request is answered 403, in particular an empty whitelist
\* lets no request through; with the whitelist disabled every request passes
\* and no reply is sent.
C25_OnlyWhitelistedPass ==
  authOut.mw = "ipWhitelistAuth" => AnsweredByWhitelist

\* the whitelist is enabled and empty, and a request has passed
C25_Witness ==
  /\ authOut.mw = "ipWhitelistAuth"
  /\ config.ENABLE_IP_WHITELIST
  /\ Len(config.IP_WHITELIST) = 0
  /\ authOut.status = 0

\* with at least one entry in the whitelist the middleware answers by the
\* contract
C25_WithEntries ==
  authOut.mw = "ipWhitelistAuth" /\ Len(AllowedIps(config.IP_WHITELIST)) > 0
    => AnsweredByWhitelist

(***************************************************************************)
(* Claims about the connection to the shared tier.                         *)
(***************************************************************************)
\* min(2^n * 100 ms, 30000 ms) for n = 1, ..., 10
BackoffDelays == <<200, 400, 800, 1600, 3200, 6400, 12800, 25600, 30000, 30000>>

\* the step runs reconnect(): after 'end', or after a connect() that failed
CallsReconnect ==
  \/ EndEvent
  \/ InitialConnectRejects
  \/ \E n \in 1..maxReconnectAttempts : ConnectRejects(n)

\* all ten attempts were made and the connection is down
Exhausted(c) ==
  /\ c.reconnectAttempts = 10
  /\ c.timers = {}
  /\ c.connecting = {}
  /\ ~c.up

C21_Inv ==
  /\ Len(conn.scheduled) <= 10
  /\ conn.scheduled = SubSeq(BackoffDelays, 1, Len(conn.scheduled))
  /\ \A tm \in conn.timers : tm.n \in 1..10 /\ tm.delay = BackoffDelays[tm.n]
  /\ Exhausted(conn) => ~redisAvailable

C21_Step ==
  /\ CallsReconnect /\ Len(conn.scheduled) < 10 =>
       /\ conn'.scheduled = Append(conn.scheduled,
                                   BackoffDelays[Len(conn.scheduled) + 1])
       /\ Cardinality(conn'.timers) = Cardinality(conn.timers) + 1
  /\ Len(conn.scheduled) = 10 =>
       /\ conn'.timers \subseteq conn.timers
       /\ conn'.scheduled = conn.scheduled
  /\ Exhausted(conn) =>
       /\ conn' = conn
       /\ ~redisAvailable'
       /\ redis' = redis
       /\ task'[1].pc \in {"idle", "done"}

\* C21: after the shared-tier connection ends or the initial connect fails,
\* reconnection attempts are scheduled with the delay min(2^n * 100 ms,
\* 30000 ms) before attempt n = 1, 2, ..., and at most 10 attempts are made;
\* after the 10th failed attempt no further attempt is scheduled and the
\* service keeps serving from the local tier only.
C21_BackoffIsBounded == [](C21_Inv) /\ [][C21_Step]_vars

\* ten attempts have failed, and a get was served from the local tier
C21_Witness ==
  /\ Exhausted(conn)
  /\ conn.failed = 10
  /\ conn.scheduled = BackoffDelays
  /\ task[1].pc = "done" /\ task[1].op = "get" /\ task[1].result = "a"

C30_Step == EndEvent => conn'.timers # conn.timers

\* C30: the reconnection budget of 10 attempts is per outage: every loss of
\* the shared-tier connection that follows a successful connect or reconnect
\* is again followed by at least one reconnection attempt
C30_EveryOutageIsRetried == [][C30_Step]_vars

\* the connection was lost for the eleventh time, each of the ten earlier
\* outages having ended with the first reconnection attempt, and no attempt is
\* pending
C30_Witness ==
  /\ Exhausted(conn)
  /\ conn.failed = 0
  /\ conn.ends = 11

(***************************************************************************)
(* Claims about the song cache facade.                                     *)
(***************************************************************************)
\* C10: after cacheSongSourceInfo(id, source, data) and a completed
\* clearSourceCache(source), getSongSourceInfo(id, source) returns absent (here
\* in local-only mode, where no shared tier can hold the entry back)
C10_ClearSourceCacheRemovesSource ==
  ~redisClient =>
    \A t \in Tasks :
      GotValue(t) /\ task[t].call = "getSongSourceInfo"
        => "clearSourceCache" \notin task[t].rem0

\* a read through the facade of a key clearSongCache is to remove
SongRead(t) ==
  task[t].call \in {"getSongInfo", "getSongSourceInfo", "getSourceMatchResult"}

\* C11, as stated: after clearSongCache(id) has completed, getSongInfo(id),
\* getSongSourceInfo(id, s) and getSourceMatchResult(id) return absent
C11_ClearSongCacheRemovesAll ==
  \A t \in Tasks :
    GotValue(t) /\ SongRead(t) => "clearSongCache" \notin task[t].rem0

\* C11, amended: in local-only mode these reads return absent after a completed
\* clearSongCache(id); with a shared tier they do when the call completed with
\* the key in neither tier and no read of it in flight
C11_ClearSongCacheRemovesReached ==
  \A t \in Tasks :
    GotValue(t) /\ SongRead(t) =>
      /\ "clearSongCache" \notin task[t].gone0
      /\ ~redisClient => "clearSongCache" \notin task[t].rem0

\* a facade entry cached in both tiers, clearSongCache reaching both, and a read
\* of it that returned absent
C11_Witness ==
  \E t \in Tasks :
    /\ GotAbsent(t) /\ SongRead(t)
    /\ "clearSongCache" \in task[t].gone0
    /\ hist[task[t].key].setAt > 0
    /\ redisAvailable

(***************************************************************************)
(* Claims about the match route.                                           *)
(***************************************************************************)
\* C2: whenever the caller of the match route observes a failed resolution
\* (the resolver returned nothing, threw, or the timeout fired), totalRequests
\* of the attempted source has already increased and its availableCount has not
C2_FailureRecordedBeforeReply ==
  match.pc = "replied" /\ match.status >= 500 =>
    /\ sourceStats[match.source].totalRequests > match.before[1]
    /\ sourceStats[match.source].availableCount = match.before[2]

====
